---------------------------- MODULE Spec2Model ----------------------------
(***************************************************************************)
(* NexRemote server: the connection and streaming engine of                *)
(* windows_app/src/core/server.py with ConnectionManager,                  *)
(* DeviceAuthenticator, MultiScreenCapture and CameraStreamer.             *)
(*                                                                         *)
(* One connection = one websocket = one run of handle_client.  The asyncio *)
(* event loop runs one coroutine at a time, so every action below is the   *)
(* code between two suspension points (await) of one coroutine.            *)
(***************************************************************************)
EXTENDS Integers, Sequences, FiniteSets, TLC

\* ------------------------------------------------------------- bounds
NConn == 2          \* connections (websockets) ever accepted
NDev == 2           \* distinct device_id values clients present
NMon == 2           \* monitors a client can ask for
MaxInflight == 1    \* message tasks created by the read loops and not yet finished
MaxConcurrent == 2  \* the same, in the runs that look at concurrent message tasks
MaxProducers == 2   \* camera capture threads alive at the same time
MaxClock == 2       \* camera frames read in one run
MaxLoops == 2       \* camera push loops of one client running at the same time
max_rate == 2       \* InputValidator.max_rate (1000 in the code), scaled down

Conns == 1..NConn
Devices == 1..NDev
Monitors == 1..NMon
DisplayIdx == 0..(NMon - 1)     \* 0-based display_index on the wire

NoConn == 0         \* "key not in dict" for maps whose values are connections
None == 0           \* Python None for client_id / device_id

VARIABLES
    running,                \* NexRemoteServer.running
    pc,                     \* position of each handle_client coroutine
    client_id,              \* handle_client's local client_id (None until validated)
    wsOpen,                 \* the transport of the connection is open
    sent,                   \* control frames handed to websocket.send, per connection
    clients,                \* NexRemoteServer.clients: device_id -> websocket
    connected_events,       \* connections for which client_connected was emitted
    pending_approvals,      \* ConnectionManager.pending_approvals: device_id -> future
    future,                 \* state of the approval future each connection created
    trusted_devices,        \* DeviceAuthenticator.trusted_devices (its keys)
    require_approval,       \* config 'require_approval'
    inflight,               \* tasks created by create_task(_safe_process(...))
    handled,                \* connections one of whose frames reached a command handler
    screen_stream_tasks,    \* _screen_stream_tasks: (client_id, mss index) -> task
    camera_stream_tasks,    \* _camera_stream_tasks: client_id -> task
    media_stream_tasks,     \* _media_stream_tasks: client_id -> task
    captures,               \* MultiScreenCapture._captures: monitors with a live producer
    camRunning,             \* CameraStreamer._running (is_active)
    cleanup_cancelled,      \* tasks cancelled by the latest _stop_client_streams call
    screen_loops,           \* running _screen_push_loop coroutines per (client_id, mss index)
    camera_loops,           \* running _camera_push_loop coroutines per client_id
    capture_threads,        \* live MonitorCapture threads per monitor
    rate_limits,            \* InputValidator.rate_limits: timestamps younger than 1 s per key
    charged,                \* per connection: its messages counted by the limiter in this second
    passed,                 \* per connection: its messages passed to a handler in this second
    raised,                 \* connections one of whose command handlers raised
    last_frame,             \* the binary frame a screen push loop sent last
    requested,              \* per key: the display index of the start that registered its loop
    refreshed,              \* keys whose live push loop a start replaced
    fps,                    \* MultiScreenCapture.fps
    quality,                \* MultiScreenCapture.quality
    resolution,             \* MultiScreenCapture.resolution
    cap_settings,           \* fps, quality and resolution of each MonitorCapture in _captures
    loop_fps,               \* per key: the fps its registered push loop paces at
    last_setting,           \* the set_fps, set_quality or set_resolution request handled last
    capture_thread,         \* CameraStreamer._capture_thread (a producer, or NoThread)
    camera_index,           \* CameraStreamer._camera_index
    producers,              \* the camera capture threads that exist and where they stand
    frame_bytes,            \* CameraStreamer._frame_bytes: capture time of the frame in the slot
    clock,                  \* camera frames read so far (the capture time of the latest)
    cam_last_sent,          \* per client: capture time of the camera frame sent to it last
    discovery_running,      \* DiscoveryService.running
    disc_pc,                \* position of the DiscoveryService.start coroutine
    socket_open,            \* DiscoveryService.socket exists and is not closed
    datagram,               \* the datagram the responder received last
    replies,                \* per address: responses sent since that datagram was received
    disc_errors,            \* per-datagram errors the responder has logged
    offloop_writes,         \* maps that a thread other than the event loop's has mutated
    stopped,                \* NexRemoteServer.stop has been called
    present,                \* the device indices at which a camera can be opened
    cameras,                \* the indices list_cameras returned
    plain,                  \* a JSON text handed to MessageEncryption.encrypt
    wire,                   \* the frame _send_response handed to websocket.send for it
    handed,                 \* how the ciphertext was handed to decrypt: as str or as bytes
    recovered,              \* what decrypt returned for it
    slot_lock,              \* MonitorCapture._lock: who holds it
    slot_frame,             \* MonitorCapture._frame
    cap_pc,                 \* position of the capture thread in _loop / _capture_one
    cap_buf,                \* the frame the capture thread has encoded
    grabbed,                \* frames the capture thread has grabbed so far
    push_pc,                \* position of the push loop in one round
    push_frame,             \* the frame the push loop took from the slot last
    pushed                  \* the frame numbers the push loop has sent, in order

vars == <<running, pc, client_id, wsOpen, sent, clients, connected_events,
          pending_approvals, future, trusted_devices, require_approval,
          inflight, handled, screen_stream_tasks, camera_stream_tasks,
          media_stream_tasks, captures, camRunning, cleanup_cancelled,
          screen_loops, camera_loops, capture_threads, rate_limits, charged, passed,
          raised,
          last_frame, requested, refreshed, fps, quality, resolution,
          cap_settings, loop_fps, last_setting, capture_thread, camera_index,
          producers, frame_bytes, clock, cam_last_sent, discovery_running, disc_pc,
          socket_open, datagram, replies, disc_errors, offloop_writes, stopped,
          present, cameras, plain, wire, handed, recovered, slot_lock, slot_frame,
          cap_pc, cap_buf, grabbed, push_pc, push_frame, pushed>>

sessionVars == <<pc, client_id, wsOpen, sent, clients, connected_events>>
approvalVars == <<pending_approvals, future>>
configVars == <<trusted_devices, require_approval>>
streamVars == <<screen_stream_tasks, camera_stream_tasks, media_stream_tasks,
                captures, camRunning, cleanup_cancelled, screen_loops, camera_loops,
                capture_threads,
                cap_settings, loop_fps>>
rateVars == <<rate_limits, charged, passed>>
startLog == <<requested, refreshed, last_setting>>
settingVars == <<fps, quality, resolution>>
camThreadVars == <<capture_thread, camera_index, producers, frame_bytes, clock,
                   cam_last_sent>>
discVars == <<discovery_running, disc_pc, socket_open, datagram, replies, disc_errors>>
stopVars == <<offloop_writes, stopped>>
listVars == <<present, cameras>>
serverVars == <<running, sessionVars, approvalVars, configVars, inflight, handled,
                streamVars, rateVars, raised, last_frame, startLog, settingVars,
                camThreadVars>>
cryptoVars == <<plain, wire, handed, recovered>>
slotVars == <<slot_lock, slot_frame, cap_pc, cap_buf, grabbed, push_pc, push_frame, pushed>>
pureVars == <<cryptoVars, slotVars>>
auxVars == <<discVars, stopVars, listVars, pureVars>>

ScreenKeys == Devices \X Monitors

\* Keys of InputValidator.rate_limits: data.get('client_id', 'unknown'), a field
\* of the message.  None stands for 'unknown' (no client_id in the message).
RateKeys == Devices \cup {None}

\* No binary frame sent yet.
NoFrame == [client |-> None, monitor |-> 0, magic |-> "", header |-> 0, image |-> 0]
\* No screen_share start seen for a (client_id, mss index) key.
NoIndex == -2

Max(a, b) == IF a >= b THEN a ELSE b
Min(a, b) == IF a <= b THEN a ELSE b

\* ------------------------------------------------------------- capture settings
\* The limits of set_fps and set_quality, and the values a message or the
\* configuration that names none gets.
MinFps == 1
MaxFps == 60
MinQuality == 1
MaxQuality == 100
DefaultFps == 30
DefaultQuality == 70

RESOLUTION_PRESETS == {"native", "1080p", "720p", "480p", "360p"}

\* set_fps, set_quality: max(1, min(limit, value)).
ClampFps(f) == Max(MinFps, Min(MaxFps, f))
ClampQuality(q) == Max(MinQuality, Min(MaxQuality, q))

\* set_resolution: "if resolution in RESOLUTION_PRESETS", else nothing is assigned.
KnownPreset_Any(r) == TRUE
KnownPreset(r) == r \in RESOLUTION_PRESETS
SetResolution(cur, r) == IF KnownPreset(r) THEN r ELSE cur

\* The fps, quality and resolution fields of a MonitorCapture; NoSettings for
\* a monitor without one.
NoSettings == [fps |-> 0, quality |-> 0, resolution |-> "none"]
CurrentSettings == [fps |-> fps, quality |-> quality, resolution |-> resolution]

\* set_fps, set_quality and set_resolution write the value into every capture
\* of _captures; set_resolution does so only for a known preset.
WriteFps(cs, caps, f) ==
    [m \in Monitors |-> IF m \in caps THEN [cs[m] EXCEPT !.fps = f] ELSE cs[m]]
WriteQuality(cs, caps, q) ==
    [m \in Monitors |-> IF m \in caps THEN [cs[m] EXCEPT !.quality = q] ELSE cs[m]]
WriteResolution(cs, caps, r) ==
    [m \in Monitors |->
        IF m \in caps /\ KnownPreset(r) THEN [cs[m] EXCEPT !.resolution = r] ELSE cs[m]]

\* start_monitor: the started captures, new or alive, get the settings st of
\* the MultiScreenCapture.
StartedSettings(cs, started, st) ==
    [m \in Monitors |-> IF m \in started THEN st ELSE cs[m]]

\* stop_monitor: the popped captures are gone.
PoppedSettings(cs, popped) ==
    [m \in Monitors |-> IF m \in popped THEN NoSettings ELSE cs[m]]

\* _screen_push_loop: interval = 1.0 / max(1, fps), with the fps it was created
\* with.  NoFps for a key without a registered loop.
NoFps == 0

\* No setting request handled yet.
NoSetting == [action |-> "none", fps |-> 0, quality |-> 0, resolution |-> "none"]
PushLoopFps(f) == Max(1, f)

\* ------------------------------------------------------------- camera threads
\* The capture threads CameraStreamer.start creates.  A thread is starting
\* until _capture_loop has opened its device, then capturing; index is the
\* device it opened, held the capture time of a frame it has read and not yet
\* put into the slot.
ProducerIds == 1..MaxProducers
NoThread == 0
NoBytes == 0
NoProducer == [state |-> "none", index |-> 0, held |-> NoBytes]

\* ------------------------------------------------------------- discovery
\* Payloads are byte sequences over a two-letter alphabet; MAGIC_BYTES stands
\* for b'NEXREMOTE_DISCOVER'.  A datagram has a source address, and fault names
\* what fails while it is handled.
MAGIC_BYTES == <<1, 2>>
Payloads == {<<>>, <<1>>, <<2, 1>>, <<1, 2>>, <<1, 2, 1>>}
NAddr == 2
Addrs == 1..NAddr
NoAddr == 0
MaxErrors == 2
Datagrams == [payload : Payloads, addr : Addrs, fault : {"none", "callback", "send"}]
NoDatagram == [payload |-> <<>>, addr |-> NoAddr, fault |-> "none"]

\* bytes.startswith
StartsWith_Any(data, prefix) == TRUE
StartsWith(data, prefix) ==
    /\ Len(data) >= Len(prefix)
    /\ SubSeq(data, 1, Len(prefix)) = prefix

\* ------------------------------------------------------------- camera list
\* list_cameras probes range(10).  NotListed: it has not been called.
ProbeCount == 10
ProbeIndices == 0..(ProbeCount - 1)
NotListed == <<-1>>

\* ------------------------------------------------------------- encryption
\* Texts are sequences of code points, byte strings sequences of 0..255, base64
\* text a sequence of the 64 digit values with PadChar for '='.
BLOCK == 16
PadChar == 64
NoWire == [frame |-> "none", data |-> <<>>]
NotDecrypted == <<-1>>
DecryptRaises == <<-2>>

\* The frame the slot holds or a reader took: none.
NoSlotFrame == <<0, 0>>

\* ------------------------------------------------------------- Init
\* trusted_devices.json as loaded at construction: absent or empty, or holding
\* device 1 from an earlier installation state.
TrustStores == {{}, {1}}

InitServer ==
    /\ running = FALSE
    /\ pc = [c \in Conns |-> "Idle"]
    /\ client_id = [c \in Conns |-> None]
    /\ wsOpen = [c \in Conns |-> FALSE]
    /\ sent = [c \in Conns |-> <<>>]
    /\ clients = [d \in Devices |-> NoConn]
    /\ connected_events = {}
    /\ pending_approvals = [d \in Devices |-> NoConn]
    /\ future = [c \in Conns |-> "none"]
    /\ trusted_devices \in TrustStores
    /\ require_approval \in BOOLEAN
    /\ inflight = {}
    /\ handled = {}
    /\ screen_stream_tasks = [k \in ScreenKeys |-> "none"]
    /\ camera_stream_tasks = [d \in Devices |-> "none"]
    /\ media_stream_tasks = [d \in Devices |-> "none"]
    /\ captures = {}
    /\ camRunning = FALSE
    /\ cleanup_cancelled = {}
    /\ screen_loops = [k \in ScreenKeys |-> 0]
    /\ camera_loops = [d \in Devices |-> 0]
    /\ capture_threads = [m \in Monitors |-> 0]
    /\ rate_limits = [b \in RateKeys |-> 0]
    /\ charged = [c \in Conns |-> 0]
    /\ passed = [c \in Conns |-> 0]
    /\ raised = {}
    /\ last_frame = NoFrame
    /\ requested = [k \in ScreenKeys |-> NoIndex]
    /\ refreshed = {}
    /\ fps = DefaultFps
    /\ quality = DefaultQuality
    /\ resolution = "native"
    /\ cap_settings = [m \in Monitors |-> NoSettings]
    /\ loop_fps = [k \in ScreenKeys |-> NoFps]
    /\ last_setting = NoSetting
    /\ capture_thread = NoThread
    /\ camera_index = 0
    /\ producers = [p \in ProducerIds |-> NoProducer]
    /\ frame_bytes = NoBytes
    /\ clock = 0
    /\ cam_last_sent = [d \in Devices |-> NoBytes]
    /\ discovery_running = FALSE
    /\ disc_pc = "idle"
    /\ socket_open = FALSE
    /\ datagram = NoDatagram
    /\ replies = [a \in Addrs |-> 0]
    /\ disc_errors = 0
    /\ offloop_writes = {}
    /\ stopped = FALSE
    /\ wire = NoWire
    /\ handed = "none"
    /\ recovered = NotDecrypted
    /\ slot_lock = "free"
    /\ slot_frame = NoSlotFrame
    /\ cap_pc = "stopped"
    /\ cap_buf = NoSlotFrame
    /\ grabbed = 0
    /\ push_pc = "idle"
    /\ pushed = <<>>
    /\ push_frame = NoSlotFrame

\* No camera is attached and list_cameras has not been called.
Init ==
    /\ InitServer
    /\ present = {}
    /\ cameras = NotListed
    /\ plain = <<>>

\* ------------------------------------------------------------- server start
\* MultiScreenCapture.monitor_index: the default monitor start() captures.
DefaultMonitor == 1

\* MultiScreenCapture.start_monitor: idempotent, one MonitorCapture per index.
start_monitor(caps, index) == caps \cup {index}

\* MultiScreenCapture.stop_monitor: pops and stops the capture, whoever reads it.
stop_monitor(caps, index) == caps \ {index}

\* The capture threads after start_monitor: a new MonitorCapture and its thread
\* are created only when the index has no live capture.
StartThread(thr, caps, index) ==
    IF index \in caps THEN thr ELSE [thr EXCEPT ![index] = @ + 1]

\* The capture threads after stop_monitor: the popped capture's thread is joined.
StopThread(thr, caps, index) ==
    IF index \in caps THEN [thr EXCEPT ![index] = @ - 1] ELSE thr

\* NexRemoteServer.start: the default monitor's producer is started with the server.
ServerStart ==
    /\ ~running
    /\ ~stopped
    /\ running' = TRUE
    /\ captures' = start_monitor(captures, DefaultMonitor)
    /\ capture_threads' = StartThread(capture_threads, captures, DefaultMonitor)
    /\ cap_settings' = StartedSettings(cap_settings, {DefaultMonitor}, CurrentSettings)
    /\ UNCHANGED <<sessionVars, approvalVars, configVars, inflight, handled,
                   screen_stream_tasks, camera_stream_tasks, camera_loops, media_stream_tasks,
                   camRunning, cleanup_cancelled, screen_loops, loop_fps, rateVars, raised,
                   last_frame, startLog, settingVars, camThreadVars, auxVars>>

\* websockets.serve accepts a connection and starts handle_client for it.
\* Connections are numbered in the order they are accepted.
Accept(c) ==
    /\ running
    /\ pc[c] = "Idle"
    /\ \A b \in Conns : b < c => pc[b] # "Idle"
    /\ pc' = [pc EXCEPT ![c] = "AwaitingAuth"]
    /\ wsOpen' = [wsOpen EXCEPT ![c] = TRUE]
    /\ UNCHANGED <<running, rateVars, raised, last_frame, startLog, settingVars, camThreadVars, auxVars, client_id, sent,
                   clients, connected_events, approvalVars,
                   configVars, inflight, handled, streamVars>>

\* The peer closes the socket (or the transport fails).
ClientClose(c) ==
    /\ pc[c] \in {"AwaitingAuth", "Approving", "Running"}
    /\ wsOpen[c]
    /\ wsOpen' = [wsOpen EXCEPT ![c] = FALSE]
    /\ UNCHANGED <<running, rateVars, raised, last_frame, startLog, settingVars, camThreadVars, auxVars, pc, client_id, sent,
                   clients, connected_events, approvalVars,
                   configVars, inflight, handled, streamVars>>

\* ------------------------------------------------------------- cleanup
\* _stop_client_streams, screen part: cancels and deletes every key of the client.
StopScreenStreams(tasks, cid) ==
    [k \in ScreenKeys |-> IF k[1] = cid THEN "none" ELSE tasks[k]]

\* task.cancel() on the registered screen tasks of the client: a loop that was
\* still running stops running.
CancelScreenLoops(loops, tasks, cid) ==
    [k \in ScreenKeys |->
        IF k[1] = cid /\ tasks[k] = "live" THEN loops[k] - 1 ELSE loops[k]]

\* _stop_client_streams, camera and media part.
StopDictStream_Skip(dict, cid) == dict
StopDictStream(dict, cid) ==
    [d \in Devices |-> IF d = cid THEN "none" ELSE dict[d]]

\* task.cancel() on the registered camera task of the client.
CancelCameraLoops(loops, tasks, cid) ==
    [d \in Devices |-> IF d = cid /\ tasks[d] = "live" THEN loops[d] - 1 ELSE loops[d]]

\* The tasks a _stop_client_streams(cid) call cancels.
CancelledBy(cid) ==
    {<<"screen", k[1], k[2]>> : k \in {x \in ScreenKeys :
                                        x[1] = cid /\ screen_stream_tasks[x] # "none"}}
    \cup {<<"camera", d, 0>> : d \in {x \in Devices :
                                        x = cid /\ camera_stream_tasks[x] # "none"}}
    \cup {<<"media", d, 0>> : d \in {x \in Devices :
                                        x = cid /\ media_stream_tasks[x] # "none"}}

\* handle_client's finally block, run with local client_id = cid when the session
\* map is cl and the frames sent so far are snt.
Finally(c, cid, cl, snt) ==
    /\ screen_stream_tasks' = StopScreenStreams(screen_stream_tasks, cid)
    /\ screen_loops' = CancelScreenLoops(screen_loops, screen_stream_tasks, cid)
    /\ loop_fps' = [k \in ScreenKeys |-> IF k[1] = cid THEN NoFps ELSE loop_fps[k]]
    /\ camera_stream_tasks' = StopDictStream(camera_stream_tasks, cid)
    /\ camera_loops' = CancelCameraLoops(camera_loops, camera_stream_tasks, cid)
    /\ media_stream_tasks' = StopDictStream(media_stream_tasks, cid)
    /\ cleanup_cancelled' = CancelledBy(cid)
    /\ clients' = IF cid # None /\ cl[cid] # NoConn
                  THEN [cl EXCEPT ![cid] = NoConn]
                  ELSE cl
    /\ sent' = snt
    /\ pc' = [pc EXCEPT ![c] = "Terminated"]
    /\ client_id' = [client_id EXCEPT ![c] = cid]
    /\ wsOpen' = [wsOpen EXCEPT ![c] = FALSE]
    /\ UNCHANGED <<captures, camRunning, capture_threads, cap_settings>>

\* ------------------------------------------------------------- authentication
\* First frames a client can send.  wire: how the frame is encoded; json: the
\* kind of JSON value it carries; device_id (None: absent or empty) and has_name.
AuthFrames ==
    [wire : {"plain", "encrypted"}, json : {"object"},
     device_id : Devices \cup {None}, has_name : BOOLEAN]
    \cup [wire : {"plain", "encrypted"}, json : {"array"},
          device_id : {None}, has_name : {FALSE}]
    \cup [wire : {"garbage"}, json : {"none"}, device_id : {None}, has_name : {FALSE}]

ValidAuthFrames ==
    {f \in AuthFrames : f.json = "object" /\ f.device_id # None /\ f.has_name}

\* json.loads(auth_msg), and on failure json.loads(decrypt(auth_msg)):
\* the decoded value, or "raise" when neither works.
ParseAuth(f) ==
    IF f.wire = "plain" THEN f.json
    ELSE IF f.wire = "encrypted" THEN f.json
    ELSE "raise"

\* DeviceAuthenticator.validate on a dict: both identity fields must be truthy.
\* Trusted and new devices are let through alike.
Validate(f) == f.device_id # None /\ f.has_name

\* ConnectionManager.request_approval, first branch: approval is granted at once
\* exactly when the config switches approval off.
ApprovalNotRequired(d) == ~require_approval

\* What request_approval returns for a finished wait: the future's result,
\* False on timeout.
ApprovalResult_AnyDone(f) == f # "pending"
ApprovalResult(f) == f = "true"

\* The frames handle_client sends once approval is granted.
AcceptedFrames_Twice == <<"auth_success", "auth_success">>
AcceptedFrames == <<"auth_success">>

\* handle_client after approval: register, emit client_connected, send
\* auth_success and enter the read loop; a send on a closed transport raises
\* ConnectionClosed and the finally block runs.
Register(c, cid) ==
    /\ connected_events' = connected_events \cup {c}
    /\ IF wsOpen[c]
       THEN /\ clients' = [clients EXCEPT ![cid] = c]
            /\ sent' = [sent EXCEPT ![c] = @ \o AcceptedFrames]
            /\ pc' = [pc EXCEPT ![c] = "Running"]
            /\ client_id' = [client_id EXCEPT ![c] = cid]
            /\ UNCHANGED <<wsOpen, streamVars>>
       ELSE Finally(c, cid, [clients EXCEPT ![cid] = c],
                    [sent EXCEPT ![c] = @ \o AcceptedFrames])

\* handle_client when request_approval returned False.
RejectedFrame_AuthSuccess == "auth_success"
RejectedFrame == "connection_rejected"

Reject(c, cid) ==
    /\ Finally(c, cid, clients, [sent EXCEPT ![c] = Append(@, RejectedFrame)])
    /\ UNCHANGED connected_events

\* handle_client from recv() of the first frame up to the first suspension.
RecvAuth(c, f) ==
    /\ pc[c] = "AwaitingAuth"
    /\ wsOpen[c]
    /\ IF ParseAuth(f) = "raise" \/ ParseAuth(f) # "object"
       THEN \* decrypt raised, or auth_data.get raised: except Exception, finally
            /\ Finally(c, None, clients, sent)
            /\ UNCHANGED <<connected_events, approvalVars>>
       ELSE IF ~Validate(f)
       THEN /\ Finally(c, None, clients, [sent EXCEPT ![c] = Append(@, "auth_failed")])
            /\ UNCHANGED <<connected_events, approvalVars>>
       ELSE IF ApprovalNotRequired(f.device_id)
       THEN /\ Register(c, f.device_id)
            /\ UNCHANGED approvalVars
       ELSE \* request_approval publishes the future and waits
            /\ pending_approvals' = [pending_approvals EXCEPT ![f.device_id] = c]
            /\ future' = [future EXCEPT ![c] = "pending"]
            /\ pc' = [pc EXCEPT ![c] = "Approving"]
            /\ client_id' = [client_id EXCEPT ![c] = f.device_id]
            /\ UNCHANGED <<wsOpen, sent, clients, connected_events, streamVars>>
    /\ UNCHANGED <<running, rateVars, raised, last_frame, startLog, settingVars, camThreadVars, auxVars, configVars, inflight,
                   handled>>

\* wait_for(websocket.recv(), timeout=30) times out: logged, nothing is sent.
AuthTimeout(c) ==
    /\ pc[c] = "AwaitingAuth"
    /\ wsOpen[c]
    /\ Finally(c, None, clients, sent)
    /\ UNCHANGED <<running, rateVars, raised, last_frame, startLog, settingVars, camThreadVars, auxVars, connected_events,
                   approvalVars, configVars, inflight, handled>>

\* recv() raises ConnectionClosed: the peer left before authenticating.
AuthRecvClosed(c) ==
    /\ pc[c] = "AwaitingAuth"
    /\ ~wsOpen[c]
    /\ Finally(c, None, clients, sent)
    /\ UNCHANGED <<running, rateVars, raised, last_frame, startLog, settingVars, camThreadVars, auxVars, connected_events,
                   approvalVars, configVars, inflight, handled>>

\* ------------------------------------------------------------- approval
\* "if not future.done()": a result is set only on a future that has none.
NotDone_Unchecked(f) == TRUE
NotDone(f) == f = "pending"

\* ConnectionDialog.approve / reject / closeEvent: the dialog holds the future
\* it was handed with the approval_requested signal.
DialogDecide(c, b) ==
    /\ future[c] # "none"
    /\ NotDone(future[c])
    /\ future' = [future EXCEPT ![c] = IF b THEN "true" ELSE "false"]
    /\ UNCHANGED <<running, rateVars, raised, last_frame, startLog, settingVars, camThreadVars, auxVars, sessionVars,
                   pending_approvals, configVars, inflight,
                   handled, streamVars>>

\* ConnectionManager.approve_connection / reject_connection.
SetPendingResult(d, b) ==
    /\ pending_approvals[d] # NoConn
    /\ NotDone(future[pending_approvals[d]])
    /\ future' = [future EXCEPT ![pending_approvals[d]] = IF b THEN "true" ELSE "false"]
    /\ UNCHANGED <<running, rateVars, raised, last_frame, startLog, settingVars, camThreadVars, auxVars, sessionVars,
                   pending_approvals, configVars, inflight,
                   handled, streamVars>>

approve_connection(d) == SetPendingResult(d, TRUE)
reject_connection(d) == SetPendingResult(d, FALSE)

\* request_approval's finally: whatever is stored under device_id is deleted.
ForgetPending(pend, d) == [pend EXCEPT ![d] = NoConn]

\* request_approval resumes with the future's result and handle_client goes on.
ApprovalWake(c) ==
    /\ pc[c] = "Approving"
    /\ future[c] \in {"true", "false"}
    /\ pending_approvals' = ForgetPending(pending_approvals, client_id[c])
    /\ IF ApprovalResult(future[c])
       THEN Register(c, client_id[c])
       ELSE Reject(c, client_id[c])
    /\ UNCHANGED <<running, rateVars, raised, last_frame, startLog, settingVars, camThreadVars, auxVars, future, configVars,
                   inflight, handled>>

\* wait_for(future, timeout=60.0) times out: the future is cancelled, False returned.
ApprovalTimeout(c) ==
    /\ pc[c] = "Approving"
    /\ future[c] = "pending"
    /\ future' = [future EXCEPT ![c] = "cancelled"]
    /\ pending_approvals' = ForgetPending(pending_approvals, client_id[c])
    /\ IF ApprovalResult("cancelled")
       THEN Register(c, client_id[c])
       ELSE Reject(c, client_id[c])
    /\ UNCHANGED <<running, rateVars, raised, last_frame, startLog, settingVars, camThreadVars, auxVars, configVars, inflight,
                   handled>>

\* ------------------------------------------------------------- read loop
\* The read loop ends (ConnectionClosed, or the iterator is exhausted): finally.
ReadLoopEnd(c) ==
    /\ pc[c] = "Running"
    /\ ~wsOpen[c]
    /\ Finally(c, client_id[c], clients, sent)
    /\ UNCHANGED <<running, rateVars, raised, last_frame, startLog, settingVars, camThreadVars, auxVars, connected_events,
                   approvalVars, configVars, inflight, handled>>

\* ------------------------------------------------------------- messages
\* InputValidator.valid_types and the per-type vocabularies.
ValidTypes == {"keyboard", "mouse", "gamepad", "clipboard", "request_screen",
               "file_transfer", "screen_share", "media_control", "task_manager",
               "camera", "sensor", "file_explorer"}
KeyboardActions == {"type", "press", "release", "hotkey"}
MouseActions == {"move", "move_relative", "click", "press", "release", "scroll"}
GamepadInputTypes == {"button", "trigger", "joystick", "dpad", "gyro"}

\* The types process_message routes to a handler.
Handlers == {"keyboard", "mouse", "gamepad", "camera", "file_explorer",
             "screen_share", "media_control", "task_manager", "clipboard"}

\* A frame a client sends on a Running session.  wire: "encrypted" decrypts and
\* decodes to a JSON object, "garbage" does not.  type, action, input_type,
\* client_id: fields of the object (None: no client_id field).  arg: for
\* screen_share start the display indices, for stop {} (no display_index) or {i}.
\* raises: the command handler raises on this message.  idle_after: more than
\* one second passes before the next message is validated.  fps, quality,
\* resolution, camera_index: the fields of these names, or the defaults
\* data.get gives.
Msg(ty, ac) ==
    [wire |-> "encrypted", type |-> ty, action |-> ac, input_type |-> "none",
     arg |-> {}, client_id |-> None, raises |-> FALSE, idle_after |-> TRUE,
     fps |-> DefaultFps, quality |-> DefaultQuality, resolution |-> "native",
     camera_index |-> 0]

InputMsgs ==
    {Msg("keyboard", a) : a \in {"type", "jump"}} \cup {Msg("telemetry", "none")}

ScreenMsgs ==
    {[Msg("screen_share", "start") EXCEPT !.arg = s] : s \in (SUBSET DisplayIdx) \ {{}}}
    \cup {[Msg("screen_share", "stop") EXCEPT !.arg = s] :
            s \in {{}} \cup {{i} : i \in DisplayIdx}}

CameraMsgs == {Msg("camera", a) : a \in {"start", "stop"}}

MediaMsgs == {Msg("media_control", "get_info")}

\* encryption.decrypt and json.loads at the head of process_message.
Decodes(m) == m.wire = "encrypted"

\* InputValidator.validate, in the order of the code: the type check, the rate
\* check on the list kept under the message's client_id, the vocabulary check.
TypeValid(m) == m.type \in ValidTypes

RateKey(m) == m.client_id

RateExceeded(m) == rate_limits[RateKey(m)] >= max_rate

VocabularyValid(m) ==
    /\ m.type = "keyboard" => m.action \in KeyboardActions
    /\ m.type = "mouse" => m.action \in MouseActions
    /\ m.type = "gamepad" => m.input_type \in GamepadInputTypes

InputValidate(m) == TypeValid(m) /\ ~RateExceeded(m) /\ VocabularyValid(m)

\* validate appends a timestamp: the type is valid and the rate not exceeded.
Counted(m) == Decodes(m) /\ TypeValid(m) /\ ~RateExceeded(m)

\* process_message goes on to the routing.
Accepted(m) == Decodes(m) /\ InputValidate(m)

\* process_message's if/elif chain: the handler a validated message reaches.
Route(m) == IF m.type \in Handlers THEN m.type ELSE "none"

Dispatched(m) == Accepted(m) /\ Route(m) # "none"

\* rate_limits as the next validate call finds it: timestamps older than one
\* second are dropped from the list before it is measured.
RateAfter(m) ==
    IF m.idle_after THEN [b \in RateKeys |-> 0]
    ELSE IF Counted(m) THEN [rate_limits EXCEPT ![RateKey(m)] = @ + 1]
    ELSE rate_limits

\* The same window, per connection.
WindowAfter(w, t, hit) ==
    IF t.msg.idle_after THEN [c \in Conns |-> 0]
    ELSE IF hit THEN [w EXCEPT ![t.conn] = @ + 1]
    ELSE w

\* The effect of process_message's validate call for task t.
ChargeRate(t) ==
    /\ rate_limits' = RateAfter(t.msg)
    /\ charged' = WindowAfter(charged, t, Counted(t.msg))
    /\ passed' = WindowAfter(passed, t, Dispatched(t.msg))

\* The tasks the read loop of c waits for before it reads the next frame: none,
\* each frame is handed to create_task.
AwaitedByReadLoop_Serial(c) == {t \in inflight : t.conn = c}
AwaitedByReadLoop(c) == {}

\* The read loop takes one frame and creates a task for it; the task closes
\* over client_id only.  slot tells the task objects apart; seq is the number
\* of message tasks in flight at creation.
ReadFrameBounded(c, m, n) ==
    LET free == {i \in 0..(n - 1) : \A t \in inflight : t.slot # i}
        task == [conn |-> c, cid |-> client_id[c], msg |-> m, phase |-> 0,
                 slot |-> CHOOSE i \in free : \A j \in free : i <= j,
                 seq |-> Cardinality(inflight)]
    IN /\ pc[c] = "Running"
       /\ wsOpen[c]
       /\ AwaitedByReadLoop(c) = {}
       /\ Cardinality(inflight) < n
       /\ inflight' = inflight \cup {task}
       /\ UNCHANGED <<running, rateVars, raised, last_frame, startLog, settingVars, camThreadVars, auxVars, sessionVars,
                      approvalVars, configVars, handled, streamVars>>

ReadFrame(c, m) == ReadFrameBounded(c, m, MaxInflight)

\* What the except clause of process_message does to the session map when the
\* handler raised: it logs, the map is as it was.
OnHandlerError_EndSession(cl, cid) == [cl EXCEPT ![cid] = NoConn]
OnHandlerError(cl, cid) == cl

\* process_message for a frame that does not decode, that the validator drops,
\* that no branch routes, or that an inline handler (keyboard, mouse, gamepad,
\* clipboard) takes.  file_explorer and task_manager are followed up to the
\* call of their handler.
ProcessInput(t) ==
    /\ t \in inflight
    /\ t.phase = 0
    /\ t.msg.type \notin {"screen_share", "camera", "media_control"} \/ ~Accepted(t.msg)
    /\ handled' = IF Dispatched(t.msg) THEN handled \cup {t.conn} ELSE handled
    /\ raised' = IF Dispatched(t.msg) /\ t.msg.raises THEN raised \cup {t.conn} ELSE raised
    /\ clients' = IF Dispatched(t.msg) /\ t.msg.raises
                  THEN OnHandlerError(clients, t.cid)
                  ELSE clients
    /\ ChargeRate(t)
    /\ inflight' = inflight \ {t}
    /\ UNCHANGED <<running, last_frame, startLog, settingVars, camThreadVars, auxVars, pc, client_id, wsOpen, sent,
                   connected_events, approvalVars, configVars, streamVars>>

\* ------------------------------------------------------------- screen share
\* mss is 1-based: display_index i is monitor max(1, i + 1).
MssIndex(i) == Max(1, i + 1)

\* The keys a start with display indices idxs registers for client cid.
StartKeys(cid, idxs) == {k \in ScreenKeys : k[1] = cid /\ \E i \in idxs : k[2] = MssIndex(i)}

\* _handle_screen_share, action start: per requested monitor the old push loop
\* is cancelled, the producer started and a new push loop registered.
ScreenStartTasks(tasks, cid, idxs) ==
    [k \in ScreenKeys |-> IF k \in StartKeys(cid, idxs) THEN "live" ELSE tasks[k]]

ScreenStartCaptures(caps, idxs) == caps \cup {MssIndex(i) : i \in idxs}

\* "if key in self._screen_stream_tasks: ...cancel()": the running loops of a
\* key, n of them, after the cancel of its registered task in state st.
CancelExisting_Skip(n, st) == n
CancelExisting(n, st) == IF st = "live" THEN n - 1 ELSE n

\* The running push loops after start: the old one cancelled, a new one created.
ScreenStartLoops(loops, tasks, cid, idxs) ==
    [k \in ScreenKeys |->
        IF k \in StartKeys(cid, idxs) THEN CancelExisting(loops[k], tasks[k]) + 1
        ELSE loops[k]]

\* start_monitor is called for the monitor of every requested index.
RECURSIVE StartThreads(_, _, _)
StartThreads(thr, caps, mons) ==
    IF mons = {} THEN thr
    ELSE LET m == CHOOSE x \in mons : TRUE
         IN StartThreads(StartThread(thr, caps, m), start_monitor(caps, m), mons \ {m})

\* _handle_screen_share, action stop: the keys of this client that match.
KeysToCancel_AllOfClient(tasks, cid, arg) ==
    {k \in ScreenKeys : tasks[k] # "none" /\ k[1] = cid}
KeysToCancel(tasks, cid, arg) ==
    {k \in ScreenKeys : /\ tasks[k] # "none"
                        /\ k[1] = cid
                        /\ (arg = {} \/ \E i \in arg : k[2] = i + 1)}

ScreenStopTasks(tasks, cid, arg) ==
    [k \in ScreenKeys |-> IF k \in KeysToCancel(tasks, cid, arg) THEN "none" ELSE tasks[k]]

ScreenStopLoops(loops, tasks, cid, arg) ==
    [k \in ScreenKeys |->
        IF k \in KeysToCancel(tasks, cid, arg) /\ tasks[k] = "live" THEN loops[k] - 1
        ELSE loops[k]]

\* stop_monitor is called for the monitor of every cancelled key.
RECURSIVE StopMonitors(_, _)
StopMonitors(caps, mons) ==
    IF mons = {} THEN caps
    ELSE LET m == CHOOSE x \in mons : TRUE
         IN StopMonitors(stop_monitor(caps, m), mons \ {m})

RECURSIVE StopThreads(_, _, _)
StopThreads(thr, caps, mons) ==
    IF mons = {} THEN thr
    ELSE LET m == CHOOSE x \in mons : TRUE
         IN StopThreads(StopThread(thr, caps, m), stop_monitor(caps, m), mons \ {m})

ScreenStopCaptures(caps, tasks, cid, arg) ==
    StopMonitors(caps, {k[2] : k \in KeysToCancel(tasks, cid, arg)})

\* process_message and _handle_screen_share for a start or a stop.
ScreenShareStep(t) ==
    /\ t \in inflight
    /\ t.phase = 0
    /\ t.msg.type = "screen_share"
    /\ t.msg.action \in {"start", "stop"}
    /\ Accepted(t.msg)
    /\ handled' = handled \cup {t.conn}
    /\ ChargeRate(t)
    /\ inflight' = inflight \ {t}
    /\ IF t.msg.action = "start"
       THEN /\ fps' = ClampFps(t.msg.fps)
            /\ quality' = ClampQuality(t.msg.quality)
            /\ resolution' = SetResolution(resolution, t.msg.resolution)
            /\ screen_stream_tasks' = ScreenStartTasks(screen_stream_tasks, t.cid, t.msg.arg)
            /\ screen_loops' = ScreenStartLoops(screen_loops, screen_stream_tasks,
                                                t.cid, t.msg.arg)
            /\ loop_fps' = [k \in ScreenKeys |->
                               IF k \in StartKeys(t.cid, t.msg.arg)
                               THEN PushLoopFps(t.msg.fps) ELSE loop_fps[k]]
            /\ captures' = ScreenStartCaptures(captures, t.msg.arg)
            /\ capture_threads' = StartThreads(capture_threads, captures,
                                               {MssIndex(i) : i \in t.msg.arg})
            /\ cap_settings' =
                  StartedSettings(
                      WriteResolution(
                          WriteQuality(WriteFps(cap_settings, captures, ClampFps(t.msg.fps)),
                                       captures, ClampQuality(t.msg.quality)),
                          captures, t.msg.resolution),
                      {MssIndex(i) : i \in t.msg.arg},
                      [fps |-> ClampFps(t.msg.fps),
                       quality |-> ClampQuality(t.msg.quality),
                       resolution |-> SetResolution(resolution, t.msg.resolution)])
       ELSE /\ screen_stream_tasks' = ScreenStopTasks(screen_stream_tasks, t.cid, t.msg.arg)
            /\ screen_loops' = ScreenStopLoops(screen_loops, screen_stream_tasks,
                                               t.cid, t.msg.arg)
            /\ loop_fps' = [k \in ScreenKeys |->
                               IF k \in KeysToCancel(screen_stream_tasks, t.cid, t.msg.arg)
                               THEN NoFps ELSE loop_fps[k]]
            /\ captures' = ScreenStopCaptures(captures, screen_stream_tasks, t.cid, t.msg.arg)
            /\ capture_threads' =
                  StopThreads(capture_threads, captures,
                              {k[2] : k \in KeysToCancel(screen_stream_tasks, t.cid, t.msg.arg)})
            /\ cap_settings' =
                  PoppedSettings(cap_settings,
                                 {k[2] : k \in KeysToCancel(screen_stream_tasks,
                                                            t.cid, t.msg.arg)})
            /\ UNCHANGED settingVars
    /\ UNCHANGED <<running, raised, last_frame, sessionVars, approvalVars, configVars,
                   camera_stream_tasks, camera_loops, media_stream_tasks, camRunning, cleanup_cancelled,
                   camThreadVars, auxVars>>

HandleScreenShare(t) == ScreenShareStep(t) /\ UNCHANGED startLog

\* The same step, with the start written to the log: the display index each
\* registered key was asked under, and the keys whose live loop was replaced.
HandleScreenShareLogged(t) ==
    /\ ScreenShareStep(t)
    /\ IF t.msg.action = "start"
       THEN /\ requested' =
                  [k \in ScreenKeys |->
                      IF k \in StartKeys(t.cid, t.msg.arg)
                      THEN CHOOSE i \in t.msg.arg : MssIndex(i) = k[2]
                      ELSE requested[k]]
            /\ refreshed' = refreshed \cup {k \in StartKeys(t.cid, t.msg.arg) :
                                              screen_stream_tasks[k] = "live"}
            /\ UNCHANGED last_setting
       ELSE UNCHANGED startLog

\* _handle_screen_share, action set_fps: the keys of this client in the map,
\* whose loops are cancelled and created anew.
RestartKeys(tasks, cid) == {k \in ScreenKeys : tasks[k] # "none" /\ k[1] = cid}

\* process_message and _handle_screen_share for set_fps, set_quality and
\* set_resolution.
HandleScreenSetting(t) ==
    /\ t \in inflight
    /\ t.phase = 0
    /\ t.msg.type = "screen_share"
    /\ t.msg.action \in {"set_fps", "set_quality", "set_resolution"}
    /\ Accepted(t.msg)
    /\ handled' = handled \cup {t.conn}
    /\ ChargeRate(t)
    /\ inflight' = inflight \ {t}
    /\ last_setting' = [action |-> t.msg.action, fps |-> t.msg.fps,
                        quality |-> t.msg.quality, resolution |-> t.msg.resolution]
    /\ IF t.msg.action = "set_quality"
       THEN /\ quality' = ClampQuality(t.msg.quality)
            /\ cap_settings' = WriteQuality(cap_settings, captures, ClampQuality(t.msg.quality))
            /\ UNCHANGED <<fps, resolution, screen_stream_tasks, screen_loops, loop_fps>>
       ELSE IF t.msg.action = "set_resolution"
       THEN /\ resolution' = SetResolution(resolution, t.msg.resolution)
            /\ cap_settings' = WriteResolution(cap_settings, captures, t.msg.resolution)
            /\ UNCHANGED <<fps, quality, screen_stream_tasks, screen_loops, loop_fps>>
       ELSE /\ fps' = ClampFps(t.msg.fps)
            /\ cap_settings' = WriteFps(cap_settings, captures, ClampFps(t.msg.fps))
            /\ screen_stream_tasks' =
                  [k \in ScreenKeys |->
                      IF k \in RestartKeys(screen_stream_tasks, t.cid) THEN "live"
                      ELSE screen_stream_tasks[k]]
            /\ screen_loops' =
                  [k \in ScreenKeys |->
                      IF k \in RestartKeys(screen_stream_tasks, t.cid)
                      THEN CancelExisting(screen_loops[k], screen_stream_tasks[k]) + 1
                      ELSE screen_loops[k]]
            /\ loop_fps' =
                  [k \in ScreenKeys |->
                      IF k \in RestartKeys(screen_stream_tasks, t.cid)
                      THEN PushLoopFps(t.msg.fps)
                      ELSE loop_fps[k]]
            /\ UNCHANGED <<quality, resolution>>
    /\ UNCHANGED <<running, raised, last_frame, requested, refreshed, sessionVars,
                   approvalVars, configVars, camera_stream_tasks, camera_loops, media_stream_tasks,
                   captures, camRunning, cleanup_cancelled, capture_threads,
                   camThreadVars, auxVars>>

\* What a push loop does to the session map when its send raises: it leaves
\* its while loop by break, the map is as it was.
OnSendError_DropSession(cl, d) == [cl EXCEPT ![d] = NoConn]
OnSendError(cl, d) == cl

\* _screen_push_loop returns: the client left the session map, or a frame was
\* there to send and the send failed.
ScreenLoopExit(d, m) ==
    /\ screen_stream_tasks[<<d, m>>] = "live"
    /\ \/ clients[d] = NoConn
       \/ clients[d] # NoConn /\ m \in captures /\ ~wsOpen[clients[d]]
    /\ screen_stream_tasks' = [screen_stream_tasks EXCEPT ![<<d, m>>] = "done"]
    /\ screen_loops' = [screen_loops EXCEPT ![<<d, m>>] = @ - 1]
    /\ clients' = OnSendError(clients, d)
    /\ UNCHANGED <<running, rateVars, raised, last_frame, startLog, settingVars, camThreadVars, auxVars, pc, client_id, wsOpen, sent, connected_events,
                   approvalVars, configVars, inflight, handled, loop_fps,
                   camera_stream_tasks, camera_loops, media_stream_tasks, captures, camRunning,
                   cleanup_cancelled, capture_threads, cap_settings>>

\* The 4 bytes every screen frame begins with.
SCREEN_HEADER == "SCRN"

\* The header byte built by _screen_push_loop: max(0, monitor_index - 1).
HeaderByte_Internal(m) == m
HeaderByte(m) == Max(0, m - 1)

\* MonitorCapture._capture_one with n monitors attached (sct.monitors has
\* n + 1 entries, entry 0 is the virtual all-screens monitor): the monitor
\* whose image the frame carries.
CapturedMonitor(idx, n) ==
    IF idx >= n + 1 THEN (IF n + 1 > 1 THEN 1 ELSE 0) ELSE idx

\* One round of _screen_push_loop with a frame in the slot and a successful
\* send; the frame was captured when n monitors were attached.
ScreenPushFrame(d, m, n) ==
    /\ screen_stream_tasks[<<d, m>>] = "live"
    /\ clients[d] # NoConn
    /\ wsOpen[clients[d]]
    /\ m \in captures
    /\ last_frame' = [client |-> d, monitor |-> m, magic |-> SCREEN_HEADER,
                      header |-> HeaderByte(m), image |-> CapturedMonitor(m, n)]
    /\ UNCHANGED <<running, rateVars, raised, startLog, settingVars, camThreadVars, auxVars, sessionVars, approvalVars,
                   configVars, inflight, handled, streamVars>>

\* ------------------------------------------------------------- camera
\* CameraStreamer.stop returns at once: nothing runs and no thread is held.
AlreadyStopped == ~camRunning /\ capture_thread = NoThread

\* join(timeout=3) on the held thread.  joined: the thread saw _running
\* cleared and exited within the 3 s; otherwise the wait timed out and the
\* thread is still there.  A thread that has exited is joined at once.
CanTimeOut == capture_thread # NoThread /\ producers[capture_thread].state # "none"

ProducersAfterStop(joined) ==
    IF AlreadyStopped \/ capture_thread = NoThread \/ ~joined
    THEN producers
    ELSE [producers EXCEPT ![capture_thread] = NoProducer]

\* CameraStreamer.stop, run in a worker thread.
StreamerStop(joined) ==
    /\ camRunning' = FALSE
    /\ producers' = ProducersAfterStop(joined)
    /\ capture_thread' = NoThread
    /\ frame_bytes' = IF AlreadyStopped THEN frame_bytes ELSE NoBytes
    /\ UNCHANGED <<camera_index, clock, cam_last_sent>>

\* CameraStreamer.start(index), run in a worker thread: stop(), then the index
\* is stored, _running set and a new capture thread created and started.
StreamerStart(index, joined) ==
    LET after == ProducersAfterStop(joined)
        free == {p \in ProducerIds : after[p].state = "none"}
        new == CHOOSE p \in free : \A q \in free : p <= q
    IN /\ free # {}
       /\ camera_index' = index
       /\ camRunning' = TRUE
       /\ producers' = [after EXCEPT ![new] = [NoProducer EXCEPT !.state = "starting"]]
       /\ capture_thread' = new
       /\ frame_bytes' = IF AlreadyStopped THEN frame_bytes ELSE NoBytes
       /\ UNCHANGED <<clock, cam_last_sent>>

\* _handle_camera start, up to and including the worker-thread call
\* camera_streamer.start: the producer is (re)started.
CameraStartCall(t, joined) ==
    /\ t \in inflight
    /\ t.phase = 0
    /\ t.msg.type = "camera" /\ t.msg.action = "start"
    /\ Accepted(t.msg)
    /\ ChargeRate(t)
    /\ handled' = handled \cup {t.conn}
    /\ StreamerStart(t.msg.camera_index, joined)
    /\ inflight' = (inflight \ {t}) \cup {[t EXCEPT !.phase = 1]}
    /\ UNCHANGED <<running, raised, last_frame, startLog, settingVars, auxVars,
                   screen_loops, loop_fps, capture_threads, cap_settings,
                   sessionVars, approvalVars, configVars, screen_stream_tasks,
                   camera_stream_tasks, camera_loops, media_stream_tasks, captures, cleanup_cancelled>>

\* The call when the previous capture thread exits within the join timeout.
CameraStartThread(t) == CameraStartCall(t, TRUE)

\* The call when the join of the previous capture thread times out.
CameraStartTimeout(t) == CanTimeOut /\ CameraStartCall(t, FALSE)

\* _handle_camera start resumes: the old push loop is cancelled, a new one registered.
CameraStartResume(t) ==
    /\ t \in inflight
    /\ t.phase = 1
    /\ t.msg.type = "camera" /\ t.msg.action = "start"
    /\ camera_loops[t.cid] < MaxLoops \/ camera_stream_tasks[t.cid] = "live"
    /\ camera_stream_tasks' = [camera_stream_tasks EXCEPT ![t.cid] = "live"]
    /\ camera_loops' = [camera_loops EXCEPT
                          ![t.cid] = CancelExisting(@, camera_stream_tasks[t.cid]) + 1]
    /\ inflight' = inflight \ {t}
    /\ UNCHANGED <<running, rateVars, raised, last_frame, startLog, settingVars, camThreadVars, auxVars, screen_loops, loop_fps,
                   capture_threads, cap_settings, sessionVars, approvalVars, configVars, handled,
                   screen_stream_tasks, media_stream_tasks, captures, camRunning,
                   cleanup_cancelled>>

\* _handle_camera stop, first part: this client's push loop is cancelled and deleted.
CameraStopBegin(t) ==
    /\ t \in inflight
    /\ t.phase = 0
    /\ t.msg.type = "camera" /\ t.msg.action = "stop"
    /\ Accepted(t.msg)
    /\ ChargeRate(t)
    /\ handled' = handled \cup {t.conn}
    /\ camera_stream_tasks' = [camera_stream_tasks EXCEPT ![t.cid] = "none"]
    /\ camera_loops' = [camera_loops EXCEPT
                          ![t.cid] = CancelExisting(@, camera_stream_tasks[t.cid])]
    /\ inflight' = (inflight \ {t}) \cup {[t EXCEPT !.phase = 1]}
    /\ UNCHANGED <<running, raised, last_frame, startLog, settingVars, camThreadVars, auxVars, screen_loops, loop_fps, capture_threads, cap_settings,
                   sessionVars, approvalVars, configVars, screen_stream_tasks,
                   media_stream_tasks, captures, camRunning, cleanup_cancelled>>

\* _handle_camera stop, the worker-thread call camera_streamer.stop.
CameraStopCall(t, joined) ==
    /\ t \in inflight
    /\ t.phase = 1
    /\ t.msg.type = "camera" /\ t.msg.action = "stop"
    /\ StreamerStop(joined)
    /\ inflight' = inflight \ {t}
    /\ UNCHANGED <<running, rateVars, raised, last_frame, startLog, settingVars, auxVars,
                   screen_loops, loop_fps, capture_threads, cap_settings, sessionVars,
                   approvalVars, configVars, handled,
                   screen_stream_tasks, camera_stream_tasks, camera_loops, media_stream_tasks,
                   captures, cleanup_cancelled>>

CameraStopThread(t) == CameraStopCall(t, TRUE)

CameraStopTimeout(t) == CanTimeOut /\ CameraStopCall(t, FALSE)

\* _handle_camera set_camera, up to and including the worker-thread call: the
\* client's push loop, if it has one, is cancelled and the producer restarted
\* on the new index.  Phase 2: the client was streaming, phase 3: it was not.
CameraSetCameraCall(t, joined) ==
    /\ t \in inflight
    /\ t.phase = 0
    /\ t.msg.type = "camera" /\ t.msg.action = "set_camera"
    /\ Accepted(t.msg)
    /\ ChargeRate(t)
    /\ handled' = handled \cup {t.conn}
    /\ camera_stream_tasks' =
          IF camera_stream_tasks[t.cid] # "none"
          THEN [camera_stream_tasks EXCEPT ![t.cid] = "done"]
          ELSE camera_stream_tasks
    /\ camera_loops' = [camera_loops EXCEPT
                          ![t.cid] = CancelExisting(@, camera_stream_tasks[t.cid])]
    /\ StreamerStart(t.msg.camera_index, joined)
    /\ inflight' = (inflight \ {t})
                   \cup {[t EXCEPT !.phase = IF camera_stream_tasks[t.cid] # "none"
                                             THEN 2 ELSE 3]}
    /\ UNCHANGED <<running, raised, last_frame, startLog, settingVars, auxVars,
                   screen_loops, loop_fps, capture_threads, cap_settings,
                   sessionVars, approvalVars, configVars, screen_stream_tasks,
                   media_stream_tasks, captures, cleanup_cancelled>>

CameraSetCameraThread(t) == CameraSetCameraCall(t, TRUE)

CameraSetCameraTimeout(t) == CanTimeOut /\ CameraSetCameraCall(t, FALSE)

\* _handle_camera set_camera resumes: a client that was streaming gets a new
\* push loop.
CameraSetCameraResume(t) ==
    /\ t \in inflight
    /\ t.phase \in {2, 3}
    /\ t.msg.type = "camera" /\ t.msg.action = "set_camera"
    /\ t.phase = 2 => camera_loops[t.cid] < MaxLoops
    /\ camera_loops' = IF t.phase = 2 THEN [camera_loops EXCEPT ![t.cid] = @ + 1]
                       ELSE camera_loops
    /\ camera_stream_tasks' =
          IF t.phase = 2 THEN [camera_stream_tasks EXCEPT ![t.cid] = "live"]
          ELSE camera_stream_tasks
    /\ inflight' = inflight \ {t}
    /\ UNCHANGED <<running, rateVars, raised, last_frame, startLog, settingVars,
                   camThreadVars, auxVars, screen_loops, loop_fps,
                   capture_threads, cap_settings, sessionVars, approvalVars, configVars,
                   handled, screen_stream_tasks, media_stream_tasks, captures, camRunning,
                   cleanup_cancelled>>

\* The steps of a capture thread, _capture_loop: it opens the device of
\* _camera_index; while _running is set it reads a frame, encodes it and puts
\* it into the slot; when it finds _running cleared it releases the device.
ProducerStep(p, after, slot, now) ==
    /\ producers' = [producers EXCEPT ![p] = after]
    /\ frame_bytes' = slot
    /\ clock' = now
    /\ UNCHANGED <<running, rateVars, raised, last_frame, startLog, settingVars, auxVars,
                   sessionVars, approvalVars, configVars, inflight, handled, streamVars,
                   capture_thread, camera_index, cam_last_sent>>

ProducerOpen(p) ==
    /\ producers[p].state = "starting"
    /\ ProducerStep(p, [producers[p] EXCEPT !.state = "capturing", !.index = camera_index],
                    frame_bytes, clock)

ProducerRead(p) ==
    /\ producers[p].state = "capturing"
    /\ producers[p].held = NoBytes
    /\ camRunning
    /\ clock < MaxClock
    /\ ProducerStep(p, [producers[p] EXCEPT !.held = clock + 1], frame_bytes, clock + 1)

ProducerStore(p) ==
    /\ producers[p].state = "capturing"
    /\ producers[p].held # NoBytes
    /\ ProducerStep(p, [producers[p] EXCEPT !.held = NoBytes], producers[p].held, clock)

ProducerExit(p) ==
    /\ producers[p].state = "capturing"
    /\ producers[p].held = NoBytes
    /\ ~camRunning
    /\ ProducerStep(p, NoProducer, frame_bytes, clock)

\* One round of _camera_push_loop with a frame in the slot and a successful send.
CameraPushFrame(d) ==
    /\ camera_stream_tasks[d] = "live"
    /\ clients[d] # NoConn
    /\ wsOpen[clients[d]]
    /\ camRunning
    /\ frame_bytes # NoBytes
    /\ cam_last_sent' = [cam_last_sent EXCEPT ![d] = frame_bytes]
    /\ UNCHANGED <<running, rateVars, raised, last_frame, startLog, settingVars, auxVars,
                   sessionVars, approvalVars, configVars, inflight, handled, streamVars,
                   capture_thread, camera_index, producers, frame_bytes, clock>>

\* _camera_push_loop returns: client gone, camera inactive, or a failed send.
CameraLoopExit(d) ==
    /\ camera_stream_tasks[d] = "live"
    /\ \/ clients[d] = NoConn
       \/ ~camRunning
       \/ clients[d] # NoConn /\ camRunning /\ ~wsOpen[clients[d]]
    /\ camera_stream_tasks' = [camera_stream_tasks EXCEPT ![d] = "done"]
    /\ camera_loops' = [camera_loops EXCEPT ![d] = @ - 1]
    /\ clients' = OnSendError(clients, d)
    /\ UNCHANGED <<running, rateVars, raised, last_frame, startLog, settingVars, camThreadVars, auxVars, screen_loops, loop_fps,
                   capture_threads, cap_settings, pc, client_id, wsOpen, sent, connected_events, approvalVars, configVars, inflight,
                   handled,
                   screen_stream_tasks, media_stream_tasks, captures, camRunning,
                   cleanup_cancelled>>

\* The camera push loops of a client that run without being the registered task.
UnregisteredLoops(d) ==
    camera_loops[d] - (IF camera_stream_tasks[d] = "live" THEN 1 ELSE 0)

\* _camera_push_loop returns in a task that the map no longer holds.
CameraOrphanExit(d) ==
    /\ UnregisteredLoops(d) > 0
    /\ \/ clients[d] = NoConn
       \/ ~camRunning
       \/ clients[d] # NoConn /\ camRunning /\ ~wsOpen[clients[d]]
    /\ camera_loops' = [camera_loops EXCEPT ![d] = @ - 1]
    /\ clients' = OnSendError(clients, d)
    /\ UNCHANGED <<running, rateVars, raised, last_frame, startLog, settingVars,
                   camThreadVars, auxVars, pc, client_id, wsOpen, sent, connected_events,
                   approvalVars, configVars, inflight, handled, screen_stream_tasks,
                   camera_stream_tasks, media_stream_tasks, captures, camRunning,
                   cleanup_cancelled, screen_loops, loop_fps, capture_threads,
                   cap_settings>>

\* ------------------------------------------------------------- media
\* _handle_media_control up to the worker-thread call send_command.
MediaCommandThread(t) ==
    /\ t \in inflight
    /\ t.phase = 0
    /\ t.msg.type = "media_control"
    /\ Accepted(t.msg)
    /\ ChargeRate(t)
    /\ handled' = handled \cup {t.conn}
    /\ inflight' = (inflight \ {t}) \cup {[t EXCEPT !.phase = 1]}
    /\ UNCHANGED <<running, raised, last_frame, startLog, settingVars, camThreadVars, auxVars, sessionVars, approvalVars,
                   configVars, streamVars>>

\* _handle_media_control resumes: a push loop is started unless a running one
\* is registered.
MediaResume(t) ==
    /\ t \in inflight
    /\ t.phase = 1
    /\ t.msg.type = "media_control"
    /\ media_stream_tasks' =
          IF media_stream_tasks[t.cid] \in {"none", "done"}
          THEN [media_stream_tasks EXCEPT ![t.cid] = "live"]
          ELSE media_stream_tasks
    /\ inflight' = inflight \ {t}
    /\ UNCHANGED <<running, rateVars, raised, last_frame, startLog, settingVars, camThreadVars, auxVars, screen_loops, loop_fps,
                   capture_threads, cap_settings, sessionVars, approvalVars, configVars, handled,
                   screen_stream_tasks, camera_stream_tasks, camera_loops, captures, camRunning,
                   cleanup_cancelled>>

\* _media_push_loop returns: the client left the session map.
MediaLoopExit(d) ==
    /\ media_stream_tasks[d] = "live"
    /\ clients[d] = NoConn
    /\ media_stream_tasks' = [media_stream_tasks EXCEPT ![d] = "done"]
    /\ UNCHANGED <<running, rateVars, raised, last_frame, startLog, settingVars, camThreadVars, auxVars, screen_loops, loop_fps,
                   capture_threads, cap_settings, sessionVars, approvalVars, configVars, inflight,
                   handled,
                   screen_stream_tasks, camera_stream_tasks, camera_loops, captures, camRunning,
                   cleanup_cancelled>>

\* ------------------------------------------------------------- discovery responder
NoReplies == [a \in Addrs |-> 0]

\* except Exception inside the loop: logged while running, and the loop goes on.
LoggedErrors(n, isRunning) == IF isRunning THEN n + 1 ELSE n

\* DiscoveryService.start up to the loop: the flag is set and the socket bound.
DiscoveryStart ==
    /\ disc_pc = "idle"
    /\ discovery_running' = TRUE
    /\ socket_open' = TRUE
    /\ disc_pc' = "check"
    /\ UNCHANGED <<datagram, replies, disc_errors, serverVars, stopVars, listVars, pureVars>>

\* while self.running: the next recvfrom is handed to the executor, or the loop
\* ends and the finally clause closes the socket.
DiscoveryLoopCheck ==
    /\ disc_pc = "check"
    /\ IF discovery_running
       THEN disc_pc' = "receiving" /\ UNCHANGED socket_open
       ELSE disc_pc' = "done" /\ socket_open' = FALSE
    /\ UNCHANGED <<discovery_running, datagram, replies, disc_errors, serverVars,
                   stopVars, listVars, pureVars>>

\* recvfrom returns a datagram: startswith is tested and the callback builds the
\* response; a callback that raises is caught inside the loop.
DiscoveryRecv(dg) ==
    /\ disc_pc = "receiving"
    /\ dg.fault # "none" => disc_errors < MaxErrors
    /\ datagram' = dg
    /\ replies' = NoReplies
    /\ IF ~StartsWith(dg.payload, MAGIC_BYTES)
       THEN disc_pc' = "check" /\ UNCHANGED disc_errors
       ELSE IF dg.fault = "callback"
            THEN /\ disc_pc' = "check"
                 /\ disc_errors' = LoggedErrors(disc_errors, discovery_running)
            ELSE disc_pc' = "sending" /\ UNCHANGED disc_errors
    /\ UNCHANGED <<discovery_running, socket_open, serverVars, stopVars, listVars, pureVars>>

\* recvfrom raises (a reset reported on the UDP socket): caught inside the loop.
DiscoveryRecvError ==
    /\ disc_pc = "receiving"
    /\ disc_errors < MaxErrors
    /\ datagram' = NoDatagram
    /\ replies' = NoReplies
    /\ disc_errors' = LoggedErrors(disc_errors, discovery_running)
    /\ disc_pc' = "check"
    /\ UNCHANGED <<discovery_running, socket_open, serverVars, stopVars, listVars, pureVars>>

\* sendto in the executor: the response goes to the datagram's source address,
\* or the send raises and is caught inside the loop.
DiscoverySend ==
    /\ disc_pc = "sending"
    /\ IF datagram.fault = "send"
       THEN /\ disc_errors' = LoggedErrors(disc_errors, discovery_running)
            /\ UNCHANGED replies
       ELSE /\ replies' = [replies EXCEPT ![datagram.addr] = @ + 1]
            /\ UNCHANGED disc_errors
    /\ disc_pc' = "check"
    /\ UNCHANGED <<discovery_running, socket_open, datagram, serverVars, stopVars,
                   listVars, pureVars>>

\* DiscoveryService.stop: only the flag is cleared.
DiscoveryStop ==
    /\ discovery_running
    /\ discovery_running' = FALSE
    /\ UNCHANGED <<disc_pc, socket_open, datagram, replies, disc_errors, serverVars,
                   stopVars, listVars, pureVars>>

\* ------------------------------------------------------------- server stop
\* The maps NexRemoteServer.stop empties that held something.
ClearedMaps ==
    {"screen_stream_tasks" : k \in {j \in ScreenKeys : screen_stream_tasks[j] # "none"}}
    \cup {"camera_stream_tasks" : d \in {e \in Devices : camera_stream_tasks[e] # "none"}}
    \cup {"clients" : d \in {e \in Devices : clients[e] # NoConn}}

\* NexRemoteServer.stop, called by MainWindow._stop_server on the UI thread
\* while the event loop runs in ServerThread: the flag is cleared, the screen
\* and camera loops are cancelled and their maps and the session map cleared,
\* discovery, the screen captures and the camera streamer are stopped.  The
\* media map and the pending approvals are not touched, and ws.close() is
\* handed to ensure_future outside the server's loop, so no socket is closed.
ServerStop(joined) ==
    /\ running
    /\ ~stopped
    /\ running' = FALSE
    /\ screen_loops' = [k \in ScreenKeys |->
                           CancelExisting(screen_loops[k], screen_stream_tasks[k])]
    /\ screen_stream_tasks' = [k \in ScreenKeys |-> "none"]
    /\ loop_fps' = [k \in ScreenKeys |-> NoFps]
    /\ camera_stream_tasks' = [d \in Devices |-> "none"]
    /\ camera_loops' = [d \in Devices |->
                           CancelExisting(camera_loops[d], camera_stream_tasks[d])]
    /\ clients' = [d \in Devices |-> NoConn]
    /\ discovery_running' = FALSE
    /\ captures' = {}
    /\ capture_threads' = [m \in Monitors |-> 0]
    /\ cap_settings' = [m \in Monitors |-> NoSettings]
    /\ StreamerStop(joined)
    /\ offloop_writes' = offloop_writes \cup ClearedMaps
    /\ stopped' = TRUE
    /\ UNCHANGED <<pc, client_id, wsOpen, sent, connected_events, approvalVars,
                   configVars, inflight, handled, media_stream_tasks,
                   cleanup_cancelled, rateVars, raised, last_frame, startLog,
                   settingVars, disc_pc, socket_open, datagram, replies, disc_errors,
                   listVars, pureVars>>

\* The camera thread exited within the join's 3 s.
ServerStopJoined == ServerStop(TRUE)

\* The join of the camera thread timed out.
ServerStopTimeout == CanTimeOut /\ ServerStop(FALSE)

\* ------------------------------------------------------------- camera enumeration
\* CameraStreamer.list_cameras from index i on, cams being the list built so far:
\* an index that does not open is skipped, and the probing ends at the first
\* index >= 2 that does not open while nothing has been found.  The properties
\* of an opened device are taken to be readable.
RECURSIVE ProbeFrom(_, _, _)
ProbeFrom(i, cams, devices) ==
    IF i >= ProbeCount THEN cams
    ELSE IF i \notin devices
         THEN IF i > 0 /\ Len(cams) = 0 /\ i >= 2
              THEN cams
              ELSE ProbeFrom(i + 1, cams, devices)
         ELSE ProbeFrom(i + 1, Append(cams, i), devices)

list_cameras(devices) == ProbeFrom(0, <<>>, devices)

\* One call of list_cameras on the attached devices.
ListCameras ==
    /\ cameras = NotListed
    /\ cameras' = list_cameras(present)
    /\ UNCHANGED <<serverVars, discVars, stopVars, present, pureVars>>

\* ------------------------------------------------------------- message encryption
\* str.encode('utf-8') and bytes.decode('utf-8'), for code points below 65536.
Utf8Char(cp) ==
    IF cp < 128 THEN <<cp>>
    ELSE IF cp < 2048 THEN <<192 + (cp \div 64), 128 + (cp % 64)>>
    ELSE <<224 + (cp \div 4096), 128 + ((cp \div 64) % 64), 128 + (cp % 64)>>

RECURSIVE Utf8Encode(_)
Utf8Encode(str) ==
    IF str = <<>> THEN <<>> ELSE Utf8Char(Head(str)) \o Utf8Encode(Tail(str))

RECURSIVE Utf8Decode(_)
Utf8Decode(b) ==
    IF b = <<>> THEN <<>>
    ELSE IF b[1] < 128
         THEN <<b[1]>> \o Utf8Decode(SubSeq(b, 2, Len(b)))
    ELSE IF b[1] < 224
         THEN <<(b[1] - 192) * 64 + (b[2] - 128)>> \o Utf8Decode(SubSeq(b, 3, Len(b)))
    ELSE <<(b[1] - 224) * 4096 + (b[2] - 128) * 64 + (b[3] - 128)>>
             \o Utf8Decode(SubSeq(b, 4, Len(b)))

\* padding.PKCS7(128): the padder always adds 1..16 bytes, each the pad length.
PadLength_OnlyIfNeeded(n) == (BLOCK - (n % BLOCK)) % BLOCK
PadLength(n) == BLOCK - (n % BLOCK)

PKCS7Pad(b) == b \o [i \in 1..PadLength(Len(b)) |-> PadLength(Len(b))]

\* The unpadder: the last byte tells how many bytes to drop.
Unpadded_Keep(b, n) == b
Unpadded(b, n) == SubSeq(b, 1, Len(b) - n)

PKCS7Unpad(b) ==
    IF Len(b) = 0 \/ Len(b) % BLOCK # 0 THEN DecryptRaises
    ELSE LET n == b[Len(b)]
         IN IF n < 1 \/ n > BLOCK \/ \E i \in (Len(b) - n + 1)..Len(b) : b[i] # n
            THEN DecryptRaises
            ELSE Unpadded(b, n)

\* AES with the fixed key stands as a keyed permutation of the bytes of a block
\* (KEY: the first bytes of 'nexremote_encryption_key_32chars'), chained as
\* CBC from the all-zero IV, with addition modulo 256 in the place of XOR.
KEY == <<110, 101, 120, 114, 101, 109, 111, 116, 101, 95, 101, 110, 99, 114, 121, 112>>
BlockPos(j) == ((j - 1) % BLOCK) + 1
EncByte(x, j) == (x * 7 + KEY[BlockPos(j)]) % 256
DecByte(y, j) == ((y + 256 - KEY[BlockPos(j)]) * 183) % 256

RECURSIVE CbcEncryptFrom(_, _)
CbcEncryptFrom(padded, out) ==
    IF Len(out) = Len(padded) THEN out
    ELSE LET j == Len(out) + 1
             prev == IF j <= BLOCK THEN 0 ELSE out[j - BLOCK]
         IN CbcEncryptFrom(padded, Append(out, EncByte((padded[j] + prev) % 256, j)))

CbcEncrypt(padded) == CbcEncryptFrom(padded, <<>>)

CbcDecrypt(c) ==
    [j \in 1..Len(c) |->
        (DecByte(c[j], j) + 256 - (IF j <= BLOCK THEN 0 ELSE c[j - BLOCK])) % 256]

\* base64.b64encode and base64.b64decode.
RECURSIVE b64encode(_)
b64encode(b) ==
    IF Len(b) = 0 THEN <<>>
    ELSE IF Len(b) = 1
         THEN <<b[1] \div 4, (b[1] % 4) * 16, PadChar, PadChar>>
    ELSE IF Len(b) = 2
         THEN <<b[1] \div 4, (b[1] % 4) * 16 + (b[2] \div 16), (b[2] % 16) * 4, PadChar>>
    ELSE <<b[1] \div 4, (b[1] % 4) * 16 + (b[2] \div 16),
           (b[2] % 16) * 4 + (b[3] \div 64), b[3] % 64>>
             \o b64encode(SubSeq(b, 4, Len(b)))

RECURSIVE b64decode(_)
b64decode(t) ==
    IF Len(t) < 4 THEN <<>>
    ELSE IF t[3] = PadChar
         THEN <<t[1] * 4 + (t[2] \div 16)>>
    ELSE IF t[4] = PadChar
         THEN <<t[1] * 4 + (t[2] \div 16), (t[2] % 16) * 16 + (t[3] \div 4)>>
    ELSE <<t[1] * 4 + (t[2] \div 16), (t[2] % 16) * 16 + (t[3] \div 4),
           (t[3] % 4) * 64 + t[4]>>
             \o b64decode(SubSeq(t, 5, Len(t)))

\* MessageEncryption.encrypt: base64 bytes of the encrypted padded UTF-8 text.
encrypt(str) ==
    [kind |-> "bytes", data |-> b64encode(CbcEncrypt(PKCS7Pad(Utf8Encode(str))))]

\* bytes.decode('utf-8') of base64 text: the same characters as a str.
AsStr(v) == [kind |-> "str", data |-> v.data]

\* MessageEncryption.decrypt: a str is base64-decoded, bytes are first decoded
\* to a str (and stripped); then decrypted, unpadded and decoded as UTF-8.
decrypt(v) ==
    LET text == IF v.kind = "str" THEN v.data ELSE AsStr(v).data
        unpadded == PKCS7Unpad(CbcDecrypt(b64decode(text)))
    IN IF unpadded = DecryptRaises THEN DecryptRaises ELSE Utf8Decode(unpadded)

\* websocket.send: a str goes out as a text frame, bytes as a binary frame.
WireFrame(v) ==
    [frame |-> IF v.kind = "str" THEN "text" ELSE "binary", data |-> v.data]

\* What _send_response and broadcast hand to send: the ciphertext as a str.
SendsStr(v) == IF v.kind = "bytes" THEN AsStr(v) ELSE v

\* _send_response / broadcast: json.dumps, encrypt, decode to str, send.
SendResponse ==
    /\ wire = NoWire
    /\ wire' = WireFrame(SendsStr(encrypt(plain)))
    /\ UNCHANGED <<plain, handed, recovered, slotVars, serverVars, discVars, stopVars,
                   listVars>>

\* decrypt(encrypt(plain)), the ciphertext handed over as a str or as bytes.
DecryptCall(how) ==
    /\ recovered = NotDecrypted
    /\ handed' = how
    /\ recovered' = decrypt(IF how = "str" THEN AsStr(encrypt(plain)) ELSE encrypt(plain))
    /\ UNCHANGED <<plain, wire, slotVars, serverVars, discVars, stopVars, listVars>>

\* ------------------------------------------------------------- the frame slot
MaxFrames == 3

\* An encoded frame is a pair of halves carrying the number of the grab that
\* produced it; a frame mixed from two writes has unequal halves.
Encoded(n) == <<n, n>>

\* Leaving a `with self._lock:` block releases the mutex.
LockOnExit_Kept(holder) == holder
LockOnExit(holder) == "free"

\* MonitorCapture.start: the capture thread begins its loop.
CaptureStart ==
    /\ cap_pc = "stopped"
    /\ cap_pc' = "grab"
    /\ UNCHANGED <<slot_lock, slot_frame, cap_buf, grabbed, push_pc, push_frame, pushed,
                   cryptoVars, serverVars, discVars, stopVars, listVars>>

\* _capture_one up to imencode: grab and encode into a buffer of the thread's
\* own; nothing is stored when imencode reports failure.
CaptureOneEncode(ok) ==
    /\ cap_pc = "grab"
    /\ grabbed < MaxFrames
    /\ grabbed' = grabbed + 1
    /\ cap_buf' = IF ok THEN Encoded(grabbed + 1) ELSE cap_buf
    /\ cap_pc' = IF ok THEN "encoded" ELSE "sleep"
    /\ UNCHANGED <<slot_lock, slot_frame, push_pc, push_frame, pushed,
                   cryptoVars, serverVars, discVars, stopVars, listVars>>

\* `with self._lock:` in _capture_one: wait for the mutex.
CaptureOneAcquire ==
    /\ cap_pc = "encoded"
    /\ slot_lock = "free"
    /\ slot_lock' = "writer"
    /\ cap_pc' = "store"
    /\ UNCHANGED <<slot_frame, cap_buf, grabbed, push_pc, push_frame, pushed,
                   cryptoVars, serverVars, discVars, stopVars, listVars>>

\* self._frame = buf.tobytes(): the slot is rebound to the new frame, and the
\* mutex is released.
CaptureOneStore ==
    /\ cap_pc = "store"
    /\ slot_frame' = cap_buf
    /\ slot_lock' = LockOnExit(slot_lock)
    /\ cap_pc' = "sleep"
    /\ UNCHANGED <<cap_buf, grabbed, push_pc, push_frame, pushed,
                   cryptoVars, serverVars, discVars, stopVars, listVars>>

\* _loop: sleep out the rest of the frame interval, outside the mutex.
CaptureSleep ==
    /\ cap_pc = "sleep"
    /\ cap_pc' = "grab"
    /\ UNCHANGED <<slot_lock, slot_frame, cap_buf, grabbed, push_pc, push_frame, pushed,
                   cryptoVars, serverVars, discVars, stopVars, listVars>>

\* get_latest_frame, called by the push loop: wait for the mutex.
GetLatestFrameAcquire ==
    /\ push_pc = "idle"
    /\ slot_lock = "free"
    /\ slot_lock' = "reader"
    /\ push_pc' = "locked"
    /\ UNCHANGED <<slot_frame, cap_pc, cap_buf, grabbed, push_frame, pushed,
                   cryptoVars, serverVars, discVars, stopVars, listVars>>

\* return self._frame: the snapshot is taken and the mutex released; the push
\* loop sends when there is a frame and sleeps otherwise.
GetLatestFrameReturn ==
    /\ push_pc = "locked"
    /\ push_frame' = slot_frame
    /\ slot_lock' = LockOnExit(slot_lock)
    /\ push_pc' = IF slot_frame # NoSlotFrame THEN "send" ELSE "sleep"
    /\ UNCHANGED <<slot_frame, cap_pc, cap_buf, grabbed, pushed,
                   cryptoVars, serverVars, discVars, stopVars, listVars>>

\* _screen_push_loop: await send(header + frame).
PushSend ==
    /\ push_pc = "send"
    /\ pushed' = Append(pushed, push_frame[1])
    /\ push_pc' = "sleep"
    /\ UNCHANGED <<slot_lock, slot_frame, cap_pc, cap_buf, grabbed, push_frame,
                   cryptoVars, serverVars, discVars, stopVars, listVars>>

\* _screen_push_loop: await asyncio.sleep(...), then the next iteration.
PushSleep ==
    /\ push_pc = "sleep"
    /\ Len(pushed) < MaxFrames
    /\ push_pc' = "idle"
    /\ UNCHANGED <<slot_lock, slot_frame, cap_pc, cap_buf, grabbed, push_frame, pushed,
                   cryptoVars, serverVars, discVars, stopVars, listVars>>

\* ------------------------------------------------------------- specifications
\* Session life cycle with inline input messages.
Next ==
    \/ ServerStart
    \/ \E c \in Conns : Accept(c)
    \/ \E c \in Conns : ClientClose(c)
    \/ \E c \in Conns, f \in AuthFrames : RecvAuth(c, f)
    \/ \E c \in Conns : AuthTimeout(c)
    \/ \E c \in Conns : AuthRecvClosed(c)
    \/ \E c \in Conns, b \in BOOLEAN : DialogDecide(c, b)
    \/ \E d \in Devices : approve_connection(d)
    \/ \E d \in Devices : reject_connection(d)
    \/ \E c \in Conns : ApprovalWake(c)
    \/ \E c \in Conns : ApprovalTimeout(c)
    \/ \E c \in Conns : ReadLoopEnd(c)
    \/ \E c \in Conns, m \in InputMsgs : ReadFrame(c, m)
    \/ \E t \in inflight : ProcessInput(t)

Spec == Init /\ [][Next]_vars

\* Sessions of an installation that does not require approval, streaming.
InitStream == Init /\ ~require_approval /\ trusted_devices = {}

SessionStepsStream ==
    \/ ServerStart
    \/ \E c \in Conns : Accept(c)
    \/ \E c \in Conns : ClientClose(c)
    \/ \E c \in Conns, f \in ValidAuthFrames : RecvAuth(c, f)
    \/ \E c \in Conns : AuthRecvClosed(c)
    \/ \E c \in Conns : ReadLoopEnd(c)

NextScreen ==
    \/ SessionStepsStream
    \/ \E c \in Conns, m \in ScreenMsgs : ReadFrame(c, m)
    \/ \E t \in inflight : HandleScreenShare(t)
    \/ \E d \in Devices, m \in Monitors : ScreenLoopExit(d, m)

SpecScreen == InitStream /\ [][NextScreen]_vars

NextCamera ==
    \/ SessionStepsStream
    \/ \E c \in Conns, m \in CameraMsgs : ReadFrame(c, m)
    \/ \E t \in inflight : CameraStartThread(t)
    \/ \E t \in inflight : CameraStartResume(t)
    \/ \E t \in inflight : CameraStopBegin(t)
    \/ \E t \in inflight : CameraStopThread(t)
    \/ \E d \in Devices : CameraLoopExit(d)

SpecCamera == InitStream /\ [][NextCamera]_vars

\* Streams of all three kinds being started, and sessions ending under them.
StartMsgs ==
    {[Msg("screen_share", "start") EXCEPT !.arg = {i}] : i \in DisplayIdx}
    \cup {Msg("camera", "start")}
    \cup MediaMsgs

NextStreams ==
    \/ SessionStepsStream
    \/ \E c \in Conns, m \in StartMsgs : ReadFrame(c, m)
    \/ \E t \in inflight : HandleScreenShare(t)
    \/ \E t \in inflight : CameraStartThread(t)
    \/ \E t \in inflight : CameraStartResume(t)
    \/ \E t \in inflight : MediaCommandThread(t)
    \/ \E t \in inflight : MediaResume(t)
    \/ \E d \in Devices, m \in Monitors : ScreenLoopExit(d, m)
    \/ \E d \in Devices : CameraLoopExit(d)
    \/ \E d \in Devices : MediaLoopExit(d)

SpecStreams == InitStream /\ [][NextStreams]_vars

\* Steps the event loop takes by itself once they are possible: scheduled tasks
\* and handlers whose awaited event has happened.
ServerStepsScreen ==
    \/ \E c \in Conns : AuthRecvClosed(c)
    \/ \E c \in Conns : ReadLoopEnd(c)
    \/ \E t \in inflight : HandleScreenShare(t)
    \/ \E d \in Devices, m \in Monitors : ScreenLoopExit(d, m)

FairSpecScreen == SpecScreen /\ WF_vars(ServerStepsScreen)

\* The approval wait ends by itself: the future is done, or the 60 s timer of
\* wait_for fires.
ApprovalEnds == \E c \in Conns : ApprovalWake(c) \/ ApprovalTimeout(c)

FairSpecApproval == Spec /\ WF_vars(ApprovalEnds)

\* Bursts of valid keyboard messages, with and without a client_id field.
RateMsgs ==
    {[Msg("keyboard", "type") EXCEPT !.client_id = b, !.idle_after = i] :
        b \in RateKeys, i \in BOOLEAN}

NextRate ==
    \/ SessionStepsStream
    \/ \E c \in Conns, m \in RateMsgs : ReadFrame(c, m)
    \/ \E t \in inflight : ProcessInput(t)

SpecRate == InitStream /\ [][NextRate]_vars

\* Messages of every type the validator knows, and of one it does not, with
\* words inside and outside the vocabularies.
ValidateMsgs ==
    {Msg("keyboard", a) : a \in {"type", "jump"}}
    \cup {Msg("mouse", a) : a \in {"click", "jump"}}
    \cup {[Msg("gamepad", "none") EXCEPT !.input_type = i] : i \in {"button", "gyro", "jump"}}
    \cup {Msg(ty, "none") : ty \in {"clipboard", "file_explorer", "task_manager",
                                     "request_screen", "file_transfer", "sensor",
                                     "telemetry"}}
    \cup {Msg("screen_share", "stop"), Msg("camera", "stop"), Msg("media_control", "get_info")}

NextValidate ==
    \/ SessionStepsStream
    \/ \E c \in Conns, m \in ValidateMsgs : ReadFrame(c, m)
    \/ \E t \in inflight : ProcessInput(t)
    \/ \E t \in inflight : HandleScreenShare(t)
    \/ \E t \in inflight : CameraStopBegin(t)
    \/ \E t \in inflight : CameraStopThread(t)
    \/ \E t \in inflight : MediaCommandThread(t)
    \/ \E t \in inflight : MediaResume(t)
    \/ \E d \in Devices : MediaLoopExit(d)

SpecValidate == InitStream /\ [][NextValidate]_vars

\* Frames that do not decode and handlers that raise, under a screen stream.
FaultMsgs ==
    {[Msg("undecodable", "none") EXCEPT !.wire = "garbage"]}
    \cup {[Msg("keyboard", "type") EXCEPT !.raises = r] : r \in BOOLEAN}
    \cup {[Msg("screen_share", "start") EXCEPT !.arg = {0}]}

NextFaults ==
    \/ SessionStepsStream
    \/ \E c \in Conns, m \in FaultMsgs : ReadFrame(c, m)
    \/ \E t \in inflight : ProcessInput(t)
    \/ \E t \in inflight : HandleScreenShare(t)
    \/ \E d \in Devices, m \in Monitors : ScreenLoopExit(d, m)

SpecFaults == InitStream /\ [][NextFaults]_vars

ServerStepsFaults ==
    \/ \E c \in Conns : AuthRecvClosed(c)
    \/ \E c \in Conns : ReadLoopEnd(c)
    \/ \E t \in inflight : ProcessInput(t)
    \/ \E t \in inflight : HandleScreenShare(t)
    \/ \E d \in Devices, m \in Monitors : ScreenLoopExit(d, m)

FairSpecFaults == SpecFaults /\ WF_vars(ServerStepsFaults)

\* Two message tasks in flight: a handler that suspends (camera start waits
\* for a worker thread) and an inline one.
ConcurrentMsgs == {Msg("camera", "start"), Msg("keyboard", "type")}

ReadConcurrent(c) == \E m \in ConcurrentMsgs : ReadFrameBounded(c, m, MaxConcurrent)

NextConcurrent ==
    \/ SessionStepsStream
    \/ \E c \in Conns : ReadConcurrent(c)
    \/ \E t \in inflight : ProcessInput(t)
    \/ \E t \in inflight : CameraStartThread(t)
    \/ \E t \in inflight : CameraStartResume(t)
    \/ \E d \in Devices : CameraLoopExit(d)

SpecConcurrent == InitStream /\ [][NextConcurrent]_vars

\* Screen streams with the frames they send.  A client can put any integer in
\* display_index; the number of attached monitors varies from capture to capture.
ClientDisplayIdx == (-1)..(NMon - 1)
Attached == 1..NMon

FrameMsgs ==
    {[Msg("screen_share", "start") EXCEPT !.arg = {i}] : i \in ClientDisplayIdx}
    \cup {Msg("screen_share", "stop")}

\* Connections of one device: it connects, reconnects and connects twice.
SessionStepsOneDevice ==
    \/ ServerStart
    \/ \E c \in Conns : Accept(c)
    \/ \E c \in Conns : ClientClose(c)
    \/ \E c \in Conns, f \in {g \in ValidAuthFrames : g.device_id = 1} : RecvAuth(c, f)
    \/ \E c \in Conns : AuthRecvClosed(c)
    \/ \E c \in Conns : ReadLoopEnd(c)

NextFrames ==
    \/ SessionStepsOneDevice
    \/ \E c \in Conns, m \in FrameMsgs : ReadFrame(c, m)
    \/ \E t \in inflight : HandleScreenShareLogged(t)
    \/ \E d \in Devices, m \in Monitors : ScreenLoopExit(d, m)
    \/ \E d \in Devices, m \in Monitors, n \in Attached : ScreenPushFrame(d, m, n)

SpecFrames == InitStream /\ [][NextFrames]_vars

\* Screen streams whose settings clients change: values inside, below and
\* above the limits, known and unknown presets.
FpsInputs == {0, 61}
QualityInputs == {0, 101}
ResolutionInputs == {"720p", "4k"}

SettingMsgs ==
    {[Msg("screen_share", "start") EXCEPT !.arg = {1}]}
    \cup {[Msg("screen_share", "start") EXCEPT
              !.arg = {0}, !.fps = 61, !.quality = 101, !.resolution = "4k"]}
    \cup {[Msg("screen_share", "set_fps") EXCEPT !.fps = f] : f \in FpsInputs}
    \cup {[Msg("screen_share", "set_quality") EXCEPT !.quality = q] : q \in QualityInputs}
    \cup {[Msg("screen_share", "set_resolution") EXCEPT !.resolution = r] :
              r \in ResolutionInputs}

NextSettings ==
    \/ SessionStepsOneDevice
    \/ \E c \in Conns, m \in SettingMsgs : ReadFrame(c, m)
    \/ \E t \in inflight : HandleScreenShare(t)
    \/ \E t \in inflight : HandleScreenSetting(t)
    \/ \E d \in Devices, m \in Monitors : ScreenLoopExit(d, m)

SpecSettings == InitStream /\ [][NextSettings]_vars

\* Two clients streaming, one of which changes the frame rate.
SetFpsMsgs ==
    {[Msg("screen_share", "start") EXCEPT !.arg = {i}] : i \in DisplayIdx}
    \cup {[Msg("screen_share", "set_fps") EXCEPT !.fps = 10]}

NextSetFps ==
    \/ SessionStepsStream
    \/ \E c \in Conns, m \in SetFpsMsgs : ReadFrame(c, m)
    \/ \E t \in inflight : HandleScreenShare(t)
    \/ \E t \in inflight : HandleScreenSetting(t)
    \/ \E d \in Devices, m \in Monitors : ScreenLoopExit(d, m)

SpecSetFps == InitStream /\ [][NextSetFps]_vars

\* The camera of one client with its capture threads: starts on two device
\* indices, stops and camera changes, capture threads that exit in time and
\* capture threads whose join times out.
CameraIdx == {0, 1}

CamThreadMsgs ==
    {[Msg("camera", "start") EXCEPT !.camera_index = i] : i \in CameraIdx}
    \cup {Msg("camera", "stop")}
    \cup {[Msg("camera", "set_camera") EXCEPT !.camera_index = 1]}

\* The first connection only, of one device.
SessionStepsOneConn ==
    \/ ServerStart
    \/ Accept(1)
    \/ ClientClose(1)
    \/ \E f \in {g \in ValidAuthFrames : g.device_id = 1} : RecvAuth(1, f)
    \/ AuthRecvClosed(1)
    \/ ReadLoopEnd(1)

NextCamThreads ==
    \/ SessionStepsOneConn
    \/ \E m \in CamThreadMsgs : ReadFrame(1, m)
    \/ \E t \in inflight : CameraStartThread(t)
    \/ \E t \in inflight : CameraStartTimeout(t)
    \/ \E t \in inflight : CameraStartResume(t)
    \/ \E t \in inflight : CameraStopBegin(t)
    \/ \E t \in inflight : CameraStopThread(t)
    \/ \E t \in inflight : CameraStopTimeout(t)
    \/ \E t \in inflight : CameraSetCameraThread(t)
    \/ \E t \in inflight : CameraSetCameraTimeout(t)
    \/ \E t \in inflight : CameraSetCameraResume(t)
    \/ \E d \in Devices : CameraLoopExit(d)
    \/ \E p \in ProducerIds : ProducerOpen(p)
    \/ \E p \in ProducerIds : ProducerRead(p)
    \/ \E p \in ProducerIds : ProducerStore(p)
    \/ \E p \in ProducerIds : ProducerExit(p)
    \/ \E d \in Devices : CameraPushFrame(d)

SpecCamThreads == InitStream /\ [][NextCamThreads]_vars

\* Camera enumeration on every set of attached devices.
InitListCameras ==
    /\ InitServer
    /\ present \in SUBSET ProbeIndices
    /\ cameras = NotListed
    /\ plain = <<>>

NextListCameras == ListCameras

SpecListCameras == InitListCameras /\ [][NextListCameras]_vars

\* The discovery responder alone, with datagrams and failures of every kind.
ResponderSteps ==
    \/ DiscoveryLoopCheck
    \/ DiscoverySend

NextDiscovery ==
    \/ DiscoveryStart
    \/ DiscoveryLoopCheck
    \/ \E dg \in Datagrams : DiscoveryRecv(dg)
    \/ DiscoveryRecvError
    \/ DiscoverySend
    \/ DiscoveryStop

SpecDiscovery == Init /\ [][NextDiscovery]_vars

\* The responder coroutine takes its own steps; whether a datagram arrives is up
\* to the network.
FairSpecDiscovery == SpecDiscovery /\ WF_vars(ResponderSteps)

\* Streaming sessions, and the host stopping the server under them.
StopMsgs ==
    {[Msg("screen_share", "start") EXCEPT !.arg = {1}], Msg("camera", "start")}

NextStop ==
    \/ SessionStepsOneConn
    \/ \E m \in StopMsgs : ReadFrame(1, m)
    \/ \E t \in inflight : HandleScreenShare(t)
    \/ \E t \in inflight : CameraStartThread(t)
    \/ \E t \in inflight : CameraStartResume(t)
    \/ \E d \in Devices, m \in Monitors : ScreenLoopExit(d, m)
    \/ \E d \in Devices : CameraLoopExit(d)
    \/ ServerStopJoined
    \/ ServerStopTimeout

SpecStop == InitStream /\ [][NextStop]_vars

\* One session whose camera messages are handled concurrently.
CamLoopMsgs ==
    {Msg("camera", a) : a \in {"start", "stop", "set_camera"}}

NextCamLoops ==
    \/ SessionStepsOneConn
    \/ \E m \in CamLoopMsgs : ReadFrameBounded(1, m, MaxConcurrent)
    \/ \E t \in inflight : CameraStartThread(t)
    \/ \E t \in inflight : CameraStartResume(t)
    \/ \E t \in inflight : CameraStopBegin(t)
    \/ \E t \in inflight : CameraStopThread(t)
    \/ \E t \in inflight : CameraSetCameraThread(t)
    \/ \E t \in inflight : CameraSetCameraResume(t)
    \/ \E d \in Devices : CameraLoopExit(d)
    \/ \E d \in Devices : CameraOrphanExit(d)

SpecCamLoops == InitStream /\ [][NextCamLoops]_vars

\* A session of device 1 that starts streams, and the same device connecting
\* again on a second connection that sends nothing.
NextReconnect ==
    \/ ServerStart
    \/ \E c \in Conns : Accept(c)
    \/ \E c \in Conns : ClientClose(c)
    \/ \E c \in Conns, f \in {g \in ValidAuthFrames : g.device_id = 1} : RecvAuth(c, f)
    \/ \E c \in Conns : AuthRecvClosed(c)
    \/ \E c \in Conns : ReadLoopEnd(c)
    \/ \E m \in StartMsgs : ReadFrame(1, m)
    \/ \E t \in inflight : HandleScreenShare(t)
    \/ \E t \in inflight : CameraStartThread(t)
    \/ \E t \in inflight : CameraStartResume(t)
    \/ \E t \in inflight : MediaCommandThread(t)
    \/ \E t \in inflight : MediaResume(t)
    \/ \E d \in Devices, m \in Monitors : ScreenLoopExit(d, m)
    \/ \E d \in Devices : CameraLoopExit(d)
    \/ \E d \in Devices : MediaLoopExit(d)

SpecReconnect == InitStream /\ [][NextReconnect]_vars

\* What the event loop and the worker threads do by themselves: handlers run
\* and resume, loops and read loops that can end do end.
ServerStepsReconnect ==
    \/ \E c \in Conns : AuthRecvClosed(c)
    \/ \E c \in Conns : ReadLoopEnd(c)
    \/ \E t \in inflight : HandleScreenShare(t)
    \/ \E t \in inflight : CameraStartThread(t)
    \/ \E t \in inflight : CameraStartResume(t)
    \/ \E t \in inflight : MediaCommandThread(t)
    \/ \E t \in inflight : MediaResume(t)
    \/ \E d \in Devices, m \in Monitors : ScreenLoopExit(d, m)
    \/ \E d \in Devices : CameraLoopExit(d)
    \/ \E d \in Devices : MediaLoopExit(d)

FairSpecReconnect == SpecReconnect /\ WF_vars(ServerStepsReconnect)

\* JSON texts of every length up to MaxPlain made of one-, two- and three-byte
\* characters.
MaxPlain == 18
Patterns == {<<65>>, <<233>>, <<123, 8364, 34>>}
PlainTexts ==
    {[i \in 1..n |-> pat[((i - 1) % Len(pat)) + 1]] : n \in 0..MaxPlain, pat \in Patterns}

InitCrypto ==
    /\ InitServer
    /\ present = {}
    /\ cameras = NotListed
    /\ plain \in PlainTexts

NextCrypto ==
    \/ SendResponse
    \/ \E how \in {"str", "bytes"} : DecryptCall(how)

SpecCrypto == InitCrypto /\ [][NextCrypto]_vars

InitSlot ==
    /\ InitServer
    /\ present = {}
    /\ cameras = NotListed
    /\ plain = <<>>

NextSlot ==
    \/ CaptureStart
    \/ \E ok \in BOOLEAN : CaptureOneEncode(ok)
    \/ CaptureOneAcquire
    \/ CaptureOneStore
    \/ CaptureSleep
    \/ GetLatestFrameAcquire
    \/ GetLatestFrameReturn
    \/ PushSend
    \/ PushSleep

SpecSlot == InitSlot /\ [][NextSlot]_vars

\* ------------------------------------------------------------- properties
Range(q) == {q[i] : i \in DOMAIN q}
InMap(c) == \E d \in Devices : clients[d] = c
NoStreamTasks(d) ==
    /\ \A m \in Monitors : screen_stream_tasks[<<d, m>>] = "none"
    /\ camera_stream_tasks[d] = "none"
    /\ media_stream_tasks[d] = "none"

\* C1: every connection in Running is in the session map: clients[device_id]
\* is that connection's own transport.
C1_RunningInSessionMap ==
    \A c \in Conns : pc[c] = "Running" => clients[client_id[c]] = c

\* C2: a connection is in the session map, and its frames reach a command
\* handler, only after request_approval returned approved for it; a connection
\* that awaits its auth frame or its approval, was rejected or timed out is not
\* in the map and none of its frames has been handled.
C2_MapOnlyAfterApproval ==
    \A c \in Conns :
        /\ (InMap(c) \/ c \in handled) =>
              /\ pc[c] \in {"Running", "Terminated"}
              /\ require_approval => future[c] = "true"
        /\ InMap(c) => pc[c] = "Running"
        /\ (pc[c] \in {"Idle", "AwaitingAuth", "Approving"}
            \/ future[c] \in {"false", "cancelled"}) =>
              ~InMap(c) /\ c \notin handled

\* C2 witness: an approved connection is registered and one of its frames was
\* handled while another connection was rejected and is gone.
C2_Witness ==
    \E c, r \in Conns :
        /\ future[c] = "true" /\ InMap(c) /\ c \in handled
        /\ future[r] = "false" /\ pc[r] = "Terminated"

\* C3: whenever a screen push loop for monitor M is registered for any session,
\* the producer of M is alive.
C3_RegisteredLoopHasProducer ==
    \A k \in ScreenKeys : screen_stream_tasks[k] # "none" => k[2] \in captures

\* C4: whenever no push loop references monitor M, the producer of M eventually
\* stops (or M is requested again).
NoLoopReferences(m) == \A d \in Devices : screen_stream_tasks[<<d, m>>] = "none"

C4_UnreferencedProducerStops ==
    \A m \in Monitors :
        [](NoLoopReferences(m) => <>(m \notin captures \/ ~NoLoopReferences(m)))

\* C5: while any session has a registered camera push loop, the camera producer
\* is running.
C5_CameraLoopHasProducer ==
    (\E d \in Devices : camera_stream_tasks[d] # "none") => camRunning

\* C6: in the step in which a session ends, all screen, camera and media-state
\* tasks of its client_id are cancelled and out of the stream-task maps, no later
\* than its record leaves the session map.
C6_StreamsCancelledAtSessionEnd ==
    [][/\ \A c \in Conns, d \in Devices :
             (pc[c] # "Terminated" /\ pc'[c] = "Terminated" /\ client_id'[c] = d) =>
                 /\ NoStreamTasks(d)'
                 /\ clients'[d] = NoConn
                 /\ CancelledBy(d) \subseteq cleanup_cancelled'
       /\ \A d \in Devices :
             (clients[d] # NoConn /\ clients'[d] = NoConn) => NoStreamTasks(d)'
      ]_vars

\* C6 witness: the latest cleanup cancelled a screen, a camera and a media task
\* of one client, whose record and tasks are gone.
C6_Witness ==
    \E d \in Devices, m \in Monitors :
        /\ {<<"screen", d, m>>, <<"camera", d, 0>>, <<"media", d, 0>>} \subseteq cleanup_cancelled
        /\ clients[d] = NoConn
        /\ NoStreamTasks(d)
        /\ \E c \in Conns : pc[c] = "Terminated" /\ client_id[c] = d

\* C7: every authentication failure (a bad first frame, or none within the
\* timeout, on an open connection) sends auth_failed before the connection ends.
C7_AuthFailureSendsAdvisory ==
    [][\A c \in Conns :
          (pc[c] = "AwaitingAuth" /\ wsOpen[c] /\ pc'[c] = "Terminated") =>
              sent'[c] = Append(sent[c], "auth_failed")
      ]_vars

\* C8: a connection whose approval was rejected or timed out gets
\* connection_rejected and is closed; it is never sent auth_success, never
\* registered and no client_connected is emitted for it.
C8_RejectedNeverRegistered ==
    \A c \in Conns :
        future[c] \in {"false", "cancelled"} =>
            /\ pc[c] \in {"Approving", "Terminated"}
            /\ "auth_success" \notin Range(sent[c])
            /\ ~InMap(c)
            /\ c \notin connected_events
            /\ pc[c] = "Approving" => sent[c] = <<>>
            /\ pc[c] = "Terminated" => sent[c] = <<"connection_rejected">> /\ ~wsOpen[c]

\* C8 witness: one connection was rejected explicitly, another by timeout, and
\* both were told so.
C8_Witness ==
    \E c, r \in Conns :
        /\ future[c] = "false" /\ future[r] = "cancelled"
        /\ pc[c] = "Terminated" /\ pc[r] = "Terminated"
        /\ sent[c] = <<"connection_rejected">> /\ sent[r] = <<"connection_rejected">>

\* C9: a connection whose device_id is trusted, or made while approval is not
\* required, publishes no PendingApproval entry and waits for no decision.
C9_TrustedSkipsApproval ==
    \A c \in Conns :
        (client_id[c] # None /\ (client_id[c] \in trusted_devices \/ ~require_approval)) =>
            future[c] = "none" /\ pc[c] # "Approving"

\* C10: once auth_success has been sent to a device, the trusted-device store
\* holds an entry for its device_id.
C10_AuthenticatedDeviceTrusted ==
    \A c \in Conns :
        "auth_success" \in Range(sent[c]) => client_id[c] \in trusted_devices

\* The step in which the message task t leaves process_message's first stretch:
\* it was waiting to run and has run.
Processed(t) == t \in inflight /\ t.phase = 0 /\ t \notin inflight'

Decided == {"true", "false", "cancelled"}

\* C11: an approval request gets exactly one outcome and keeps it: approved
\* when the decision is approve, rejected when it is reject or when the 60 s
\* timeout comes first; a later approve, reject or timeout does not change it;
\* and every approval wait ends.
C11_ApprovalResolvesOnce ==
    /\ [][\A c \in Conns :
             /\ future[c] \in Decided => future'[c] = future[c]
             /\ (pc[c] = "Approving" /\ pc'[c] # "Approving") =>
                   /\ future'[c] \in Decided
                   /\ future'[c] = "true" <=> "auth_success" \in Range(sent'[c])
                   /\ future'[c] \in {"false", "cancelled"} <=>
                         "connection_rejected" \in Range(sent'[c])
         ]_vars
    /\ \A c \in Conns : (pc[c] = "Approving") ~> (pc[c] # "Approving")

\* C11 witness: one request was decided and is still published, so that a late
\* approve_connection or reject_connection finds it, and another request was
\* resolved by the timeout.
C11_Witness ==
    \E c, r \in Conns :
        /\ pc[c] = "Approving" /\ future[c] \in {"true", "false"}
        /\ pending_approvals[client_id[c]] = c
        /\ future[r] = "cancelled" /\ pc[r] = "Terminated"

\* C12: the rate limit is per session: a message with a valid type and a valid
\* word waiting to be processed is let through whenever fewer than max_rate
\* messages of its own session were counted in the running second, however
\* many messages other sessions have sent.
C12_RateLimitPerSession ==
    \A t \in inflight :
        (t.phase = 0 /\ Decodes(t.msg) /\ TypeValid(t.msg) /\ VocabularyValid(t.msg)
         /\ charged[t.conn] < max_rate) => Accepted(t.msg)

\* C13: at most max_rate messages of one session are passed to handlers within
\* one second.
C13_AtMostMaxRatePassed ==
    \A c \in Conns : passed[c] <= max_rate

\* The messages C14 says are passed to a handler.
ClaimedPassed(m) ==
    /\ m.type \in {"keyboard", "mouse", "gamepad", "media_control", "file_explorer",
                   "task_manager", "screen_share", "camera", "clipboard"}
    /\ m.type = "keyboard" => m.action \in {"type", "press", "release", "hotkey"}
    /\ m.type = "mouse" =>
          m.action \in {"move", "move_relative", "click", "press", "release", "scroll"}
    /\ m.type = "gamepad" => m.input_type \in {"button", "trigger", "joystick", "dpad"}

\* C14: a decoded message reaches a handler if and only if its type is one of
\* the nine known types and, for keyboard, mouse and gamepad, its word is in the
\* vocabulary: a session none of whose messages has reached a handler has one
\* that did after the step exactly in that case.
C14_PassedIffKnownAndInVocabulary ==
    [][\A t \in inflight :
          (Processed(t) /\ Decodes(t.msg) /\ t.conn \notin handled) =>
              (t.conn \in handled' <=> ClaimedPassed(t.msg))
      ]_vars

\* C15: a frame of a Running session that cannot be decrypted or decoded
\* terminates the session.
C15_CodecErrorTerminates ==
    \A c \in Conns :
        [](( \E t \in inflight : t.conn = c /\ ~Decodes(t.msg)) => <>(pc[c] = "Terminated"))

\* C16: when a command handler raises, the step leaves the session in the
\* session map and in Running with its transport, and its registered stream
\* tasks as they were, so that its read loop goes on dispatching.
C16_HandlerErrorConfined ==
    [][\A t \in inflight :
          (Processed(t) /\ Dispatched(t.msg) /\ t.msg.raises) =>
              /\ clients' = clients
              /\ pc' = pc /\ wsOpen' = wsOpen
              /\ screen_stream_tasks' = screen_stream_tasks
              /\ camera_stream_tasks' = camera_stream_tasks
              /\ media_stream_tasks' = media_stream_tasks
              /\ screen_loops' = screen_loops
      ]_vars

\* C16 witness: a handler raised for a session that is still registered, still
\* has its screen push loop, and a frame read afterwards has its task.
C16_Witness ==
    \E c \in raised :
        /\ pc[c] = "Running" /\ clients[client_id[c]] = c
        /\ \E m \in Monitors : screen_stream_tasks[<<client_id[c], m>>] = "live"
        /\ \E t \in inflight : t.conn = c

\* C17: a suspended handler holds nothing up: every Running session with an
\* open transport can have its next frame dispatched, and every task waiting to
\* run can run, whatever other tasks are suspended.
C17_NoHeadOfLineBlocking ==
    /\ \A c \in Conns :
          (pc[c] = "Running" /\ wsOpen[c] /\ Cardinality(inflight) < MaxConcurrent) =>
              ENABLED ReadConcurrent(c)
    /\ \A u \in inflight :
          u.phase = 0 => ENABLED (ProcessInput(u) \/ CameraStartThread(u))

\* C17 witness: a handler is suspended on its worker thread and a frame
\* received later on the same session has its own task, ready to run.
C17_Witness ==
    \E t, u \in inflight :
        /\ t.conn = u.conn
        /\ t.phase = 1 /\ t.seq = 0
        /\ u.phase = 0 /\ u.seq = 1 /\ u.msg.type = "keyboard"

\* C18 as claimed: a frame sent by the push loop started for display index i
\* has header byte i, for every display index a client can send.
C18_HeaderIsClientIndex ==
    [][last_frame' # last_frame =>
          /\ last_frame'.magic = "SCRN"
          /\ last_frame'.header = requested[<<last_frame'.client, last_frame'.monitor>>]
      ]_vars

\* C18 amended: the header byte is max(0, i): i for an index from 0 on, and 0
\* (the primary monitor, which is then streamed) for a negative index.
C18_HeaderIsClampedIndex ==
    [][last_frame' # last_frame =>
          /\ last_frame'.magic = "SCRN"
          /\ last_frame'.header =
                Max(0, requested[<<last_frame'.client, last_frame'.monitor>>])
      ]_vars

\* C18 witness: frames were sent by a loop started with display index -1.
C18_Witness ==
    /\ last_frame # NoFrame
    /\ requested[<<last_frame.client, last_frame.monitor>>] = -1
    /\ last_frame.header = 0

\* C19: a frame with header byte i carries the image of OS monitor i + 1.
C19_ImageMatchesHeader ==
    last_frame # NoFrame => last_frame.image = last_frame.header + 1

\* C20: after a screen_share start, also one that repeats an earlier start of
\* the session, each requested monitor has exactly one producer and each
\* (session, monitor) key exactly one running push loop, the registered one;
\* no key ever has more than one running loop nor a monitor more than one
\* producer.
C20_StartIsIdempotent ==
    [][/\ \A t \in inflight :
             (Processed(t) /\ Accepted(t.msg)
              /\ t.msg.type = "screen_share" /\ t.msg.action = "start") =>
                 \A k \in StartKeys(t.cid, t.msg.arg) :
                     /\ screen_stream_tasks'[k] = "live"
                     /\ screen_loops'[k] = 1
                     /\ k[2] \in captures'
                     /\ capture_threads'[k[2]] = 1
       /\ \A k \in ScreenKeys : screen_loops'[k] <= 1
       /\ \A m \in Monitors : capture_threads'[m] <= 1
      ]_vars

\* C20 witness: a start replaced the live push loop of a key, which now has
\* one running loop and one producer.
C20_Witness ==
    \E k \in refreshed :
        /\ screen_stream_tasks[k] = "live"
        /\ screen_loops[k] = 1
        /\ k[2] \in captures /\ capture_threads[k[2]] = 1

\* The step in which the task t runs a screen_share stop.
StopProcessed(t) ==
    /\ Processed(t) /\ Accepted(t.msg)
    /\ t.msg.type = "screen_share" /\ t.msg.action = "stop"

\* C21: a screen_share stop of a session removes from the screen stream map
\* exactly the keys of that session that match, (c, i + 1) for display_index
\* i and every (c, *) without one; every other key keeps its task and its
\* loop, and a stop that matches no registered key changes nothing.
C21_StopRemovesExactlyMatching ==
    [][\A t \in inflight :
          StopProcessed(t) =>
              /\ \A d \in Devices, m \in Monitors :
                    IF d = t.cid /\ (t.msg.arg = {} \/ (m - 1) \in t.msg.arg)
                    THEN screen_stream_tasks'[<<d, m>>] = "none"
                    ELSE /\ screen_stream_tasks'[<<d, m>>] = screen_stream_tasks[<<d, m>>]
                         /\ screen_loops'[<<d, m>>] = screen_loops[<<d, m>>]
              /\ (\A m \in Monitors :
                     (t.msg.arg = {} \/ (m - 1) \in t.msg.arg) =>
                         screen_stream_tasks[<<t.cid, m>>] = "none") =>
                    UNCHANGED <<screen_stream_tasks, screen_loops, loop_fps, captures, capture_threads, cap_settings>>
      ]_vars

\* C21 witness: the monitor 1 stream of a client was stopped (its producer went
\* with it) while the client's monitor 2 stream and a stream of another client
\* stay registered.
C21_Witness ==
    \E d, e \in Devices :
        /\ d # e /\ running
        /\ screen_stream_tasks[<<d, 1>>] = "none" /\ 1 \notin captures
        /\ screen_stream_tasks[<<d, 2>>] = "live"
        /\ \E m \in Monitors : screen_stream_tasks[<<e, m>>] = "live"

\* The step in which the task t runs a screen_share request with action a.
ScreenProcessed(t, a) ==
    /\ Processed(t) /\ Accepted(t.msg)
    /\ t.msg.type = "screen_share" /\ t.msg.action = a

\* C22: the fps and quality in use are within bounds whatever the requests
\* carried: the fps of the MultiScreenCapture, of every producer and of every
\* running push loop is in 1..60, the quality of the encoders in 1..100.
C22_SettingsWithinBounds ==
    /\ fps \in 1..60
    /\ quality \in 1..100
    /\ \A m \in captures :
          cap_settings[m].fps \in 1..60 /\ cap_settings[m].quality \in 1..100
    /\ \A k \in ScreenKeys :
          screen_stream_tasks[k] = "live" => loop_fps[k] \in 1..60

\* C23: a start or set_resolution request whose preset is not one of native,
\* 1080p, 720p, 480p, 360p leaves the resolution of the MultiScreenCapture and
\* of every running MonitorCapture as it was; a capture the request starts
\* gets the retained value.
C23_UnknownPresetRejected ==
    [][\A t \in inflight :
          ((ScreenProcessed(t, "start") \/ ScreenProcessed(t, "set_resolution"))
           /\ t.msg.resolution \notin {"native", "1080p", "720p", "480p", "360p"}) =>
              /\ resolution' = resolution
              /\ \A m \in captures :
                    cap_settings'[m].resolution = cap_settings[m].resolution
              /\ \A m \in captures' : cap_settings'[m].resolution = resolution
      ]_vars

\* C23 witness: set_resolution with the unknown preset 4k was handled last and
\* the MultiScreenCapture and a running capture still have 720p.
C23_Witness ==
    /\ last_setting.action = "set_resolution"
    /\ last_setting.resolution = "4k"
    /\ resolution = "720p"
    /\ \E m \in captures : cap_settings[m].resolution = "720p"

\* C24: after set_fps with value f every push loop that was running runs and
\* paces at f, and the keys of the screen stream map are the same as before.
C24_SetFpsRestartsEveryLoop ==
    [][\A t \in inflight :
          ScreenProcessed(t, "set_fps") =>
              /\ \A k \in ScreenKeys :
                    screen_stream_tasks[k] = "live" =>
                        /\ screen_stream_tasks'[k] = "live"
                        /\ loop_fps'[k] = t.msg.fps
              /\ {k \in ScreenKeys : screen_stream_tasks'[k] # "none"}
                    = {k \in ScreenKeys : screen_stream_tasks[k] # "none"}
      ]_vars

\* C25: at any time at most one camera capture thread exists, on one device
\* index: a new producer begins only after the previous one has exited.
C25_OneCameraProducer ==
    Cardinality({p \in ProducerIds : producers[p].state # "none"}) <= 1

\* C30: the camera frames delivered to a client are in non-decreasing capture
\* order, also across restarts of the push loop and of the producer.
C30_FramesInCaptureOrder ==
    [][\A d \in Devices :
          (cam_last_sent'[d] # NoBytes /\ cam_last_sent[d] # NoBytes) =>
              cam_last_sent'[d] >= cam_last_sent[d]
      ]_vars

\* C26: list_cameras returns exactly the indices in 0..9 whose device can be
\* opened, whatever the set of indices at which a camera is present.
C26_ListsExactlyPresent ==
    cameras # NotListed =>
        {cameras[n] : n \in 1..Len(cameras)} = present

\* The payload is NEXREMOTE_DISCOVER followed by any bytes.
BeginsWithMagic(data) == \E n \in 0..Len(data) : SubSeq(data, 1, n) = MAGIC_BYTES

\* C27: once a datagram has been handled, exactly one response has gone to its
\* source address if its payload begins with NEXREMOTE_DISCOVER and nothing
\* failed, and no response has gone anywhere otherwise; and the loop ends only
\* after stop, never on a per-datagram error.
C27_OneReplyPerProbe ==
    /\ (disc_pc = "check" /\ datagram # NoDatagram) =>
           replies = [a \in Addrs |->
                         IF /\ BeginsWithMagic(datagram.payload)
                            /\ datagram.fault = "none"
                            /\ a = datagram.addr
                         THEN 1 ELSE 0]
    /\ \A a \in Addrs : replies[a] <= 1
    /\ disc_pc = "done" => ~discovery_running

\* A probe is answered after errors have been logged.
C27_Witness ==
    /\ disc_errors = MaxErrors
    /\ disc_pc = "check"
    /\ discovery_running
    /\ BeginsWithMagic(datagram.payload)
    /\ Len(datagram.payload) > Len(MAGIC_BYTES)
    /\ replies[datagram.addr] = 1

\* C28: after stop the responder loop terminates and its socket is closed, even
\* if no further datagram arrives.
C28_StopTerminatesResponder ==
    (disc_pc # "idle" /\ ~discovery_running) ~> (disc_pc = "done" /\ ~socket_open)

\* C29: the session map, the stream-task maps and the pending-approval map are
\* mutated only on the event-loop thread: no other thread, the one that calls
\* the server's stop included, ever changes one of them.
C29_MapsMutatedOnLoopThreadOnly ==
    offloop_writes = {}

Rank(st) ==
    CASE st = "Idle" -> 0
      [] st = "AwaitingAuth" -> 1
      [] st = "Approving" -> 2
      [] st = "Running" -> 3
      [] st = "Terminated" -> 4

CountAuthSuccess(frames) ==
    Cardinality({n \in 1..Len(frames) : frames[n] = "auth_success"})

\* C35: a connection moves through AwaitingAuth, Approving, Running, Terminated
\* in that order only: it never goes back, a state left by a failure is left for
\* Terminated, and Terminated is final.  auth_success is sent at most once, it
\* is the frame sent on entry to Running, and no message of a connection is
\* dispatched before it.
C35_LifecycleInOrder ==
    [][\A c \in Conns :
          /\ Rank(pc'[c]) >= Rank(pc[c])
          /\ pc[c] = "Terminated" => pc'[c] = "Terminated"
          /\ (pc[c] = "Approving" /\ pc'[c] # pc[c]) => pc'[c] \in {"Running", "Terminated"}
          /\ CountAuthSuccess(sent'[c]) <= 1
          /\ (pc[c] # "Running" /\ pc'[c] = "Running") =>
                 /\ CountAuthSuccess(sent[c]) = 0
                 /\ sent'[c] = Append(sent[c], "auth_success")
          /\ pc'[c] = "Running" => CountAuthSuccess(sent'[c]) = 1
          /\ c \in handled' => CountAuthSuccess(sent'[c]) = 1
      ]_vars

\* A connection that waited for approval, was approved, had a message
\* dispatched and has terminated.
C35_Witness ==
    \E c \in Conns :
        /\ pc[c] = "Terminated"
        /\ future[c] = "true"
        /\ c \in handled
        /\ CountAuthSuccess(sent[c]) = 1

\* C37: a connection that terminates without having reached Running leaves the
\* session map and the stream-task maps as they were, whatever device_id it
\* presented.
C37_FailedConnectionTouchesNothing ==
    [][\A c \in Conns :
          (pc[c] \in {"AwaitingAuth", "Approving"} /\ pc'[c] = "Terminated") =>
              /\ clients' = clients
              /\ screen_stream_tasks' = screen_stream_tasks
              /\ camera_stream_tasks' = camera_stream_tasks
              /\ media_stream_tasks' = media_stream_tasks
      ]_vars

\* C40: while a connection waits in Approving, the pending-approval entry of
\* its device_id is its own future, whatever other connections with the same
\* device_id do meanwhile.
C40_PendingEntryStaysRegistered ==
    \A c \in Conns :
        pc[c] = "Approving" => pending_approvals[client_id[c]] = c

\* The push loops that are running.
LiveScreen == {k \in ScreenKeys : screen_stream_tasks[k] = "live"}
LiveCamera == {d \in Devices : camera_stream_tasks[d] = "live"}
LiveMedia == {d \in Devices : media_stream_tasks[d] = "live"}

\* Exactly one push loop ended by itself in this step, on a send that failed.
SendFailedIn(d) ==
    /\ clients[d] # NoConn
    /\ ~wsOpen[clients[d]]
    /\ \/ \E m \in Monitors :
             /\ screen_stream_tasks[<<d, m>>] = "live"
             /\ screen_stream_tasks'[<<d, m>>] = "done"
       \/ /\ camera_stream_tasks[d] = "live"
          /\ camera_stream_tasks'[d] = "done"
          /\ camRunning

\* C34: when a send fails in one push loop only that loop ends: the session
\* stays in the session map, and every other push loop of that session and of
\* the other sessions is still running.
C34_SendFailureEndsOneLoop ==
    [][\A d \in Devices :
          SendFailedIn(d) =>
              /\ clients' = clients
              /\ Cardinality(LiveScreen') + Cardinality(LiveCamera') + Cardinality(LiveMedia')
                    = Cardinality(LiveScreen) + Cardinality(LiveCamera) + Cardinality(LiveMedia) - 1
              /\ LiveScreen' \subseteq LiveScreen
              /\ LiveCamera' \subseteq LiveCamera
              /\ LiveMedia' = LiveMedia
      ]_vars

\* A push loop of a session has ended on a failed send while the session is in
\* the session map and another push loop of it is still running.
C34_Witness ==
    \E d \in Devices, m \in Monitors :
        /\ clients[d] # NoConn
        /\ ~wsOpen[clients[d]]
        /\ screen_stream_tasks[<<d, m>>] = "done"
        /\ camera_stream_tasks[d] = "live"
        /\ media_stream_tasks[d] = "live"

\* C39: for each client at most one camera push loop is running, whatever the
\* interleaving of its camera start, stop and set_camera messages: a loop that
\* is not the registered task has been cancelled.
C39_OneCameraLoopPerClient ==
    \A d \in Devices :
        /\ camera_loops[d] <= 1
        /\ UnregisteredLoops(d) = 0

\* The cleanup of a session of client d has run and no session of d is Running.
CleanedUp(d) ==
    /\ \E c \in Conns : pc[c] = "Terminated" /\ client_id[c] = d
    /\ \A c \in Conns : client_id[c] = d => pc[c] # "Running"

\* C38: once a session's cleanup has run, the stream-task maps that the
\* handlers waiting for a worker thread write (camera and media state) hold no
\* entry for its client: none is left and none is added afterwards.
C38_NoEntryAfterCleanup ==
    \A d \in Devices :
        CleanedUp(d) =>
            /\ camera_stream_tasks[d] = "none"
            /\ media_stream_tasks[d] = "none"

\* No push loop of client d is running.
NoLoopsOf(d) ==
    /\ \A m \in Monitors : screen_stream_tasks[<<d, m>>] # "live" /\ screen_loops[<<d, m>>] = 0
    /\ camera_stream_tasks[d] # "live" /\ camera_loops[d] = 0
    /\ media_stream_tasks[d] # "live"

\* C36: after the session of connection 1 has been removed from the session
\* map and its push-loop tasks cancelled, the push loops its messages started
\* all exit in the end and stay away.
C36_LoopsExitAfterRemoval ==
    <>[](\A d \in Devices : (pc[1] = "Terminated" /\ client_id[1] = d) => NoLoopsOf(d))

\* C32: an envelope goes out as a text frame whose base64-decoded length is the
\* smallest multiple of 16 strictly greater than the UTF-8 length of the JSON
\* text, so a positive multiple of 16.
C32_FrameIsPaddedTextFrame ==
    wire # NoWire =>
        /\ wire.frame = "text"
        /\ Len(b64decode(wire.data)) > 0
        /\ Len(b64decode(wire.data)) % 16 = 0
        /\ Len(b64decode(wire.data)) > Len(Utf8Encode(plain))
        /\ Len(b64decode(wire.data)) - 16 <= Len(Utf8Encode(plain))

\* An envelope whose UTF-8 length is a multiple of 16 and not zero has gone out.
C32_Witness ==
    /\ wire # NoWire
    /\ Len(Utf8Encode(plain)) = 32
    /\ Len(b64decode(wire.data)) = 48

\* C33: decrypt(encrypt(plain)) = plain, the ciphertext handed to decrypt as a
\* base64 str or as the base64 bytes encrypt returned.
C33_DecryptInvertsEncrypt ==
    recovered # NotDecrypted => recovered = plain

\* A text with multi-byte characters that fills its last block came back from
\* the bytes encrypt returned.
C33_Witness ==
    /\ handed = "bytes"
    /\ recovered = plain
    /\ Len(plain) > 0
    /\ Len(Utf8Encode(plain)) > Len(plain)
    /\ Len(Utf8Encode(plain)) % 16 = 0

\* C31: a read of the frame slot yields nothing or one complete producer write,
\* never a mix of two; the reader holds the mutex only while it takes the
\* snapshot, never while it sends or sleeps, so the producer is never kept
\* waiting by a slow consumer.
C31_SnapshotWholeAndLockBrief ==
    /\ \/ push_frame = NoSlotFrame
       \/ \E n \in 1..grabbed : push_frame = Encoded(n)
    /\ (slot_lock = "reader") <=> (push_pc = "locked")
    /\ push_pc \in {"send", "sleep"} => slot_lock # "reader"
    /\ (cap_pc = "encoded" /\ push_pc \in {"send", "sleep"}) => slot_lock = "free"

\* The consumer sent frame 1, was slow, and sent frame 3 next: frame 2 was
\* overwritten in the slot unread, the producer having stored it meanwhile.
C31_Witness ==
    /\ pushed = <<1, 3>>
    /\ grabbed = 3

============================================================================
